---- MODULE Spec2Model ----
(***************************************************************************)
(* Model of the FriendConnect bot's session lifecycle (SessionManager,     *)
(* FriendConnectManager.recover and the 'error' listener) and of the       *)
(* HealthMonitor.                                                          *)
(*                                                                         *)
(* Execution model.  Node runs one callback at a time; an async function   *)
(* runs synchronously up to its next await on real I/O or a timer.  One    *)
(* step of the model is therefore one event-loop turn: a timer or a        *)
(* network response fires, and every continuation that becomes runnable   *)
(* runs until each task is again suspended on I/O or a timer (Settle).     *)
(* Each task (initialize, recover, the heartbeat callback, the manager's   *)
(* stop) has a stack of frames, one per suspended async function.          *)
(***************************************************************************)
EXTENDS Integers, Sequences, FiniteSets, TLC

\* ---------------------------------------------------------------- bounds
maxReconnectAttempts == 2
NumOthers == 1
MaxClock == 4
MaxRecovers == 2
MaxStops == 1

\* ------------------------------------------------------ program constants
reconnectDelay == 5000
\* sessionConfig.autoReconnect as initialize() computes it from the configured
\* value: config.session?.autoReconnect || true
autoReconnect(configured) == configured \/ TRUE

Tasks == {"init", "rec", "hb", "mstop"}

VARIABLES
    sessionInstance,    \* 0 = null, otherwise the session name (its timestamp)
    heartbeatInterval,  \* TRUE iff the interval handle is set
    reconnectAttempts,
    isRunning,
    timers,             \* number of armed heartbeat interval timers
    clock,              \* last value read from Date.now() for a session name
    live,               \* session names PUT to MPSD for which no DELETE was sent
    recovering,         \* FriendConnectManager.recovering
    initialized,        \* FriendConnectManager.initialized
    registered,         \* the manager is in the coordinator's managers map
    autoRecover,        \* config.session.autoRecover
    stacks,             \* per task: the frames of its suspended async functions
    emitted,            \* events and log lines of the last event-loop turn
    quiet,              \* a stop() has returned and no createSession has passed line 43 since
    started,            \* initialize has been called
    nRecovers,
    nStops,
    activeServers,      \* the coordinator's stats.activeServers
    cfgAutoReconnect    \* config.session.autoReconnect of the manager being initialized

smvars == <<sessionInstance, heartbeatInterval, reconnectAttempts, isRunning,
            timers, clock, live, recovering, initialized, registered,
            autoRecover, stacks, emitted, quiet, started, nRecovers, nStops,
            activeServers, cfgAutoReconnect>>

VARIABLES
    hmIsRunning,          \* HealthMonitor.isRunning
    healthCheckInterval,  \* TRUE iff the interval handle is set
    hmTimers,             \* number of armed health-check interval timers
    serverHealthCheckers, \* the keys of the map, in insertion order
    healthHistory,        \* server id -> sequence of the 'healthy' flags kept
    failures,             \* server id -> failure count (a partial map)
    tick,                 \* the suspended performHealthChecks run, or NoRun
    forced,               \* the suspended checkServer run, or NoRun
    hmEmitted,            \* events of the last event-loop turn
    streak,               \* server id -> consecutive unhealthy probes processed
    nTicks,               \* health-check ticks fired
    nOps                  \* startMonitoring, checkServer and stop calls made

hmvars == <<hmIsRunning, healthCheckInterval, hmTimers, serverHealthCheckers,
            healthHistory, failures, tick, forced, hmEmitted, streak,
            nTicks, nOps>>

VARIABLES
    fmFriendships,   \* FriendManager.friendships: the recorded keys <<from, to>>
    requestQueue,    \* FriendManager.requestQueue
    fmIsProcessing,  \* FriendManager.isProcessing
    inflight,        \* friendship tasks started and not settled
    loops,           \* the processRequestQueue runs: "batch", "delay" or "done"
    follows,         \* the social service: <<a, b>> iff a follows b
    fmEmitted,       \* events and requests of the last event-loop turn
    allOk,           \* every social GET and PUT answered so far succeeded
    nextId,          \* number of tasks created so far
    nFMCalls         \* setupCrossFriendships, refreshFriendships and stop calls made

fmvars == <<fmFriendships, requestQueue, fmIsProcessing, inflight, loops, follows,
            fmEmitted, allOk, nextId, nFMCalls>>

VARIABLES
    mhInput,     \* what one FriendConnectManager.getHealthStatus() call reads
    mhResult     \* what the call returned, or NoResult before it

mhvars == <<mhInput, mhResult>>

VARIABLES
    numServers,               \* config.servers.length
    continueOnServerFailure,  \* config.global.continueOnServerFailure
    srvI,                     \* the loop index whose initialize() is awaited, 0 before the call
    managers,                 \* the keys of the coordinator's managers map
    srvFailed,                \* the servers whose initialize() rejected
    startup                   \* "idle", "running", "ok" or "failed"

stvars == <<numServers, continueOnServerFailure, srvI, managers, srvFailed, startup>>

VARIABLES
    amCall,       \* the initializeAccounts() call: "idle", "pending", "ok" or "throw"
    amState,      \* per account: "idle", "trying", "delay", "ok" or "failed"
    amMethod,     \* per account: the index of the authentication method being tried
    amAttempt,    \* per account: the attempt argument of its authenticateAccount
    amSuccessful, \* the accounts initializeAccounts() returned, in order
    amEmitted     \* events and log lines of the last event-loop turn

amvars == <<amCall, amState, amMethod, amAttempt, amSuccessful, amEmitted>>

VARIABLES
    xrCall,      \* the authenticateAccount() call: "idle", "pending", "amDelay", "ok" or "failed"
    xrRound,     \* the attempt argument of authenticateAccount
    xrStrategy,  \* the index of the strategy authenticateWithRecovery is trying
    xrChains,    \* the getXboxTokenWithAdvancedRetry runs started; the last is awaited
    xrStart,     \* the clock when the timer of the current strategy was armed
    xrClock,     \* time since the call, in ticks
    xrIdentity,  \* the client returned, or NoIdentity
    tokenDir,    \* the files of the shared token directory
    xrEmitted    \* requests, responses and log lines of the last event-loop turn

xrvars == <<xrCall, xrRound, xrStrategy, xrChains, xrStart, xrClock, xrIdentity,
            tokenDir, xrEmitted>>

\* the identities held by AuthManager and by the SessionManager of a server
VARIABLES
    idAuth,             \* account -> generation of its client in authenticatedAccounts, 0 = none
    idBusy,             \* accounts whose refreshAccountToken() is in progress
    hostAccount,        \* SessionManager.hostAccount: [account, gen], or NoAccount
    allAccounts,        \* SessionManager.allAccounts: sequence of [account, gen]
    idUsed,             \* the [account, gen] of the running session's PUT and joins
    idEmitted           \* what the last step did

idvars == <<idAuth, idBusy, hostAccount, allAccounts, idUsed, idEmitted>>

\* one call of ConfigValidator.validate()
VARIABLES
    cvInput,            \* the configuration passed, NoConfig before the call
    cvResult            \* what validate() returned or threw, NoConfig before

cvvars == <<cvInput, cvResult>>

\* one call of XSTSTokenHandler.parseXSTSResponse()
VARIABLES
    xpBody,             \* the response text passed, NoConfig before the call
    xpResult            \* what the call returned or threw, NoConfig before

xpvars == <<xpBody, xpResult>>

vars == <<smvars, hmvars, fmvars, mhvars, stvars, amvars, xrvars, idvars, cvvars, xpvars>>

\* ------------------------------------------------------------ world record
Frame(pc, v, k, x) == [pc |-> pc, v |-> v, k |-> k, x |-> x]

World(adv) ==
    [sessionInstance |-> sessionInstance, heartbeatInterval |-> heartbeatInterval,
     reconnectAttempts |-> reconnectAttempts, isRunning |-> isRunning,
     timers |-> timers, clock |-> clock, live |-> live,
     recovering |-> recovering, initialized |-> initialized,
     registered |-> registered, autoRecover |-> autoRecover, stacks |-> stacks,
     emitted |-> <<>>, quiet |-> quiet, started |-> started,
     nRecovers |-> nRecovers, nStops |-> nStops,
     activeServers |-> activeServers, cfgAutoReconnect |-> cfgAutoReconnect,
     ret |-> [t \in Tasks |-> "none"], overflow |-> FALSE,
     \* Date.now() may still return the previous name's millisecond when the
     \* previous event-loop turn chose that name
     sameMs |-> adv = 0 /\ \E i \in 1..Len(emitted) : emitted[i].ev = "PUT"]

Commit(w) ==
    /\ ~w.overflow
    /\ sessionInstance' = w.sessionInstance
    /\ heartbeatInterval' = w.heartbeatInterval
    /\ reconnectAttempts' = w.reconnectAttempts
    /\ isRunning' = w.isRunning
    /\ timers' = w.timers
    /\ clock' = w.clock
    /\ live' = w.live
    /\ recovering' = w.recovering
    /\ initialized' = w.initialized
    /\ registered' = w.registered
    /\ autoRecover' = w.autoRecover
    /\ stacks' = w.stacks
    /\ emitted' = w.emitted
    /\ quiet' = w.quiet
    /\ started' = w.started
    /\ nRecovers' = w.nRecovers
    /\ nStops' = w.nStops
    /\ activeServers' = w.activeServers
    /\ cfgAutoReconnect' = w.cfgAutoReconnect
    /\ UNCHANGED <<hmvars, fmvars, mhvars, stvars, amvars, xrvars, idvars, cvvars, xpvars>>

Ev(e, a) == [ev |-> e, a |-> a]
Emit(w, e, a) == [w EXCEPT !.emitted = Append(@, Ev(e, a))]

Top(w, t) == w.stacks[t][Len(w.stacks[t])]
SetTop(w, t, f) == [w EXCEPT !.stacks[t][Len(w.stacks[t])] = f]
SetPc(w, t, pc) == SetTop(w, t, [Top(w, t) EXCEPT !.pc = pc])
\* suspend task t in a new frame
Block(w, t, f) == [w EXCEPT !.stacks[t] = Append(@, f), !.ret[t] = "none"]
\* the top async function of t settles with r ("ok" or "throw")
Return(w, t, r) ==
    LET s == SubSeq(w.stacks[t], 1, Len(w.stacks[t]) - 1)
    IN [w EXCEPT !.stacks[t] = s, !.ret[t] = IF s = <<>> THEN "none" ELSE r]

TopPc(t) == IF stacks[t] = <<>> THEN "idle" ELSE stacks[t][Len(stacks[t])].pc
\* ------------------------------------------------------- SessionManager
\* stop(), lines 372-377: after the DELETE (whatever its outcome).  The
\* manager forwards 'stopped' and the coordinator's listener counts the
\* server out
stopResume(w, t) ==
    Return(Emit([w EXCEPT !.sessionInstance = 0, !.reconnectAttempts = 0,
                          !.quiet = TRUE, !.activeServers = @ - 1],
                "stopped", 0), t, "ok")

\* a stop() was called while the frame slept in the reconnect backoff
MarkSleeper(s) ==
    IF s # <<>> /\ s[Len(s)].pc = "ar_delay"
    THEN [s EXCEPT ![Len(s)].x = 1] ELSE s

\* stop(), lines 343-364: up to the await of the DELETE
stop(w, t) ==
    LET w1 == [w EXCEPT !.isRunning = FALSE,
                        !.timers = IF w.heartbeatInterval THEN @ - 1 ELSE @,
                        !.heartbeatInterval = FALSE,
                        !.stacks = [u \in Tasks |-> MarkSleeper(@[u])]]
        w2 == Block(w1, t, Frame("st_del", 0, 0, 0))
    IN IF w.sessionInstance # 0
       THEN Emit([w2 EXCEPT !.live = @ \ {w.sessionInstance}], "DELETE", w.sessionInstance)
       ELSE stopResume(w2, t)

\* a recover() without the in-flight guard of lines 229-232
recoverUnguarded(w) ==
    IF w.nRecovers >= MaxRecovers THEN [w EXCEPT !.overflow = TRUE]
    ELSE stop([w EXCEPT !.recovering = TRUE, !.nRecovers = @ + 1,
                        !.stacks["rec"] = <<Frame("rc_stop", 0, 0, 0)>>,
                        !.ret["rec"] = "none"], "rec")

\* FriendConnectManager.recover(), up to the await of sessionManager.stop()
recover(w) ==
    IF w.recovering THEN Emit(w, "alreadyRecovering", 0)
    ELSE IF w.nRecovers >= MaxRecovers THEN [w EXCEPT !.overflow = TRUE]
    ELSE stop([w EXCEPT !.recovering = TRUE, !.nRecovers = @ + 1,
                        !.stacks["rec"] = <<Frame("rc_stop", 0, 0, 0)>>,
                        !.ret["rec"] = "none"], "rec")

\* the manager's listener for the session manager's 'error' event
onSessionError(w) ==
    IF ~w.recovering /\ w.autoRecover THEN recover(w) ELSE w

\* the attempt number within the ladder of this task: one more than the
\* number of attemptReconnect frames already on its stack
LadderK(s) == Cardinality({i \in 1..Len(s) : s[i].pc \in {"ar_delay", "ar_cs", "ar_ar"}})

\* attemptReconnect(), lines 291-301: up to the await of the delay
attemptReconnect(w, t) ==
    LET n == w.reconnectAttempts + 1
        delay == reconnectDelay * (2 ^ (n - 1))
        w1 == Emit([w EXCEPT !.reconnectAttempts = n], "reconnectAttempt", n)
    IN Block(w1, t, Frame("ar_delay", delay, LadderK(w.stacks[t]) + 1, 0))

\* createXboxLiveSession(), lines 133-144: choose the name, send the PUT
createXboxLiveSession(w, t) ==
    LET name == IF w.sameMs THEN w.clock ELSE w.clock + 1
        w1 == [w EXCEPT !.clock = name, !.quiet = FALSE,
                        !.overflow = @ \/ name > MaxClock]
    IN Block(Emit(w1, "PUT", name), t, Frame("xl_put", name, 0, 0))

\* createSession(), lines 43-44
createSessionBuild(w, t) == createXboxLiveSession(SetPc(w, t, "cs_create"), t)

\* createSession(), lines 34-44: up to the first await
createSession(w, t) ==
    LET w1 == Block(Emit(w, "creating", 0), t, Frame("cs_stop", 0, 0, 0))
    IN IF w.isRunning THEN stop(w1, t) ELSE createSessionBuild(w1, t)

\* joinOtherAccounts(), lines 165-176: the loop over the remaining accounts
RECURSIVE joinOtherAccounts(_, _)
joinOtherAccounts(w, t) ==
    LET f == Top(w, t)
    IN IF f.v = 0 THEN Return(w, t, "ok")
       ELSE IF w.sessionInstance = 0
            THEN joinOtherAccounts(SetTop(w, t, [f EXCEPT !.v = @ - 1]), t)
            ELSE [SetTop(w, t, [f EXCEPT !.pc = "jo_put"]) EXCEPT !.ret[t] = "none"]

\* startHeartbeat(), lines 227-244
startHeartbeat(w) ==
    [w EXCEPT !.timers = (IF w.heartbeatInterval THEN @ - 1 ELSE @) + 1,
              !.heartbeatInterval = TRUE]

\* createSession(), lines 46-57: after createXboxLiveSession returned
createSessionJoin(w, t) ==
    joinOtherAccounts(Block(SetPc(Emit(w, "sessionCreated", w.sessionInstance), t, "cs_join"),
                            t, Frame("jo", NumOthers, 0, 0)), t)

\* createSession(), lines 52-57: after joinOtherAccounts returned
createSessionFinish(w, t) ==
    Return([startHeartbeat(w) EXCEPT !.isRunning = TRUE, !.reconnectAttempts = 0], t, "ok")

\* createSession(), lines 59-68: the catch block
createSessionCatch(w, t) ==
    LET w1 == Emit(w, "createFailed", LadderK(w.stacks[t]))
    IN IF autoReconnect(w.cfgAutoReconnect) /\ w.reconnectAttempts < maxReconnectAttempts
       THEN attemptReconnect(SetPc(w1, t, "cs_ar"), t)
       ELSE Return(onSessionError(Emit(w1, "error:create", w.reconnectAttempts)), t, "throw")

\* attemptReconnect(), lines 303-314: after createSession settled
attemptReconnectResume(w, t, r) ==
    IF r = "ok"
    THEN Return(Emit(w, "sessionRecovered", w.sessionInstance), t, "ok")
    ELSE IF w.reconnectAttempts < maxReconnectAttempts
         THEN attemptReconnect(SetPc(w, t, "ar_ar"), t)
         ELSE Return(onSessionError(Emit(w, "error:max", w.reconnectAttempts)), t, "ok")

\* FriendConnectManager.recover(), lines 253-269: after createSession settled
recoverFinish(w, t, r) ==
    Return(Emit([w EXCEPT !.recovering = FALSE],
                IF r = "ok" THEN "recovered" ELSE "recoveryFailed", 0), t, r)

\* FriendConnectManager.initialize(), lines 112-125, and the coordinator's
\* initializeServers, lines 132-147: after createSession settled
initializeFinish(w, t, r) ==
    IF r = "ok"
    THEN Return(Emit([w EXCEPT !.initialized = TRUE, !.registered = TRUE,
                               !.activeServers = @ + 1], "initialized", 0), t, r)
    ELSE Return(Emit(w, "managerError", 0), t, r)

\* FriendConnectManager.stop(), lines 335-347, and the coordinator's stop,
\* lines 351-354: after sessionManager.stop() returned; the manager's own
\* 'stopped' reaches the coordinator's listener too
managerStopFinish(w, t) ==
    Return(Emit([w EXCEPT !.initialized = FALSE, !.registered = FALSE,
                          !.activeServers = @ - 1], "managerStopped", 0), t, "ok")

\* the continuation of the top frame of t, whose callee settled with ret[t]
Resume(w, t) ==
    LET pc == Top(w, t).pc
        r == w.ret[t]
        w0 == [w EXCEPT !.ret[t] = "none"]
    IN CASE pc = "cs_stop" -> createSessionBuild(w0, t)
         [] pc = "cs_create" -> IF r = "ok" THEN createSessionJoin(w0, t)
                                ELSE createSessionCatch(w0, t)
         [] pc = "cs_join" -> createSessionFinish(w0, t)
         [] pc = "cs_ar" -> Return(w0, t, "ok")
         [] pc = "ar_cs" -> attemptReconnectResume(w0, t, r)
         [] pc = "ar_ar" -> Return(w0, t, "ok")
         [] pc = "rc_stop" -> SetPc(w0, t, "rc_refresh")
         [] pc = "rc_cs" -> recoverFinish(w0, t, r)
         [] pc = "in_cs" -> initializeFinish(w0, t, r)
         [] pc = "ms_stop" -> managerStopFinish(w0, t)

Ready(w) == {t \in Tasks : w.stacks[t] # <<>> /\ w.ret[t] # "none"}

\* run every runnable continuation until each task is suspended again
RECURSIVE Settle(_)
Settle(w) ==
    IF Ready(w) = {} \/ w.overflow THEN w
    ELSE Settle(Resume(w, CHOOSE t \in Ready(w) : TRUE))

Turn(w) == Commit(Settle(w))

\* ---------------------------------------------------------------- actions
Advs == {0, 1}

\* FriendConnectManager.initialize(), lines 39-62: up to the await of
\* authManager.initializeAccounts()
Initialize ==
    /\ ~started
    /\ \E configured \in BOOLEAN :
         Turn(Emit([World(1) EXCEPT !.started = TRUE,
                                    !.cfgAutoReconnect = configured,
                                    !.stacks["init"] = <<Frame("in_auth", 0, 0, 0)>>],
                   "authenticate", 0))

\* initializeAccounts() settles: initialize(), lines 62-83 (some account was
\* authenticated: setupCrossFriendships is called) or lines 119-124 (none was)
AuthDone(ok) ==
    /\ TopPc("init") = "in_auth"
    /\ Turn(IF ok
            THEN SetPc(Emit(World(1), "setupCrossFriendships", 0), "init", "in_friends")
            ELSE Return(Emit(World(1), "managerError", 0), "init", "throw"))

\* setupCrossFriendships() returns (it never rejects): initialize(), lines
\* 85-112, calls createSession()
FriendSetupDone ==
    /\ TopPc("init") = "in_friends"
    /\ \E adv \in Advs :
         Turn(createSession(SetPc(World(adv), "init", "in_cs"), "init"))

\* the session PUT of createXboxLiveSession is answered
CreatePutResponse(t, ok) ==
    /\ TopPc(t) = "xl_put"
    /\ LET w == World(1)
           name == Top(w, t).v
       IN Turn(IF ok
               THEN Return([w EXCEPT !.sessionInstance = name, !.live = @ \cup {name}], t, "ok")
               ELSE Return(w, t, "throw"))

\* the member PUT of joinSessionWithAccount is answered
JoinPutResponse(t, ok) ==
    /\ TopPc(t) = "jo_put"
    /\ LET w == World(1)
           f == Top(w, t)
       IN Turn(IF ok
               THEN SetTop(Emit(w, "sessionJoined", 0), t, [f EXCEPT !.pc = "jo_delay"])
               ELSE joinOtherAccounts(SetTop(w, t, [f EXCEPT !.pc = "jo", !.v = @ - 1]), t))

\* the rate-limiting delay(1000) of joinOtherAccounts elapses
JoinDelayElapsed(t) ==
    /\ TopPc(t) = "jo_delay"
    /\ LET w == World(1)
           f == Top(w, t)
       IN Turn(joinOtherAccounts(SetTop(w, t, [f EXCEPT !.pc = "jo", !.v = @ - 1]), t))

\* the backoff delay of attemptReconnect elapses: createSession is called
ReconnectDelayElapsed(t) ==
    /\ TopPc(t) = "ar_delay"
    /\ \E adv \in Advs :
         LET w == World(adv)
         IN Turn(createSession(SetPc(w, t, "ar_cs"), t))

\* the DELETE of stop() is answered (or fails): stop() finishes
DeleteResponse(t) ==
    /\ TopPc(t) = "st_del"
    /\ \E adv \in Advs : Turn(stopResume(World(adv), t))

\* the heartbeat interval fires: performHeartbeat(), lines 246-273
HeartbeatTick ==
    /\ timers > 0
    /\ stacks["hb"] = <<>>
    /\ sessionInstance # 0 /\ isRunning
    /\ Turn(Block(Emit(World(1), "heartbeatPUT", sessionInstance), "hb", Frame("hb_put", 0, 0, 0)))

\* a heartbeat handler that would start a reconnect run: counter incremented,
\* 'reconnectAttempt' emitted
heartbeatCatchReconnecting(w) ==
    onSessionError(Emit([Emit(Emit(w, "heartbeatFailed", 0), "error:heartbeat", w.reconnectAttempts)
                            EXCEPT !.reconnectAttempts = @ + 1],
                        "reconnectAttempt", w.reconnectAttempts + 1))

\* the interval callback of startHeartbeat(), lines 237-240: performHeartbeat
\* threw
heartbeatCatch(w) ==
    onSessionError(Emit(Emit(w, "heartbeatFailed", 0), "error:heartbeat", w.reconnectAttempts))

\* the heartbeat PUT is answered: performHeartbeat(), lines 275-287
HeartbeatResponse(ok) ==
    /\ TopPc("hb") = "hb_put"
    /\ LET w == World(1)
       IN Turn(IF ok /\ sessionInstance # 0
               THEN Return(Emit(w, "sessionHeartbeat", sessionInstance), "hb", "ok")
               ELSE Return(heartbeatCatch(w), "hb", "ok"))

\* authManager.refreshTokens() of recover() completes (it never rejects)
RefreshTokensDone ==
    /\ TopPc("rec") = "rc_refresh"
    /\ Turn(SetPc(World(1), "rec", "rc_friends"))

\* friendManager.refreshFriendships() of recover() completes; recover() calls
\* createSession()
RefreshFriendshipsDone ==
    /\ TopPc("rec") = "rc_friends"
    /\ \E adv \in Advs :
         Turn(createSession(SetPc(World(adv), "rec", "rc_cs"), "rec"))

\* the coordinator's serverDown listener: recoverServer -> manager.recover()
RecoverServer ==
    /\ registered
    /\ \E adv \in Advs : Turn(recover(World(adv)))

\* the coordinator's stop(): manager.stop() -> sessionManager.stop()
ManagerStop ==
    /\ registered
    /\ nStops < MaxStops
    /\ \E adv \in Advs :
         Turn(stop([World(adv) EXCEPT !.nStops = @ + 1,
                       !.stacks["mstop"] = <<Frame("ms_stop", 0, 0, 0)>>], "mstop"))

\* --------------------------------------------------------- HealthMonitor
\* bounds of the HealthMonitor specification
MaxTicks == 4
MaxOps == 3

\* program constants
maxFailures == 3
HistoryWindow == 10
criticalTenths == 3
healthTenths == 8

Servers == <<"s1", "s2">>
ServerIds == {Servers[i] : i \in 1..Len(Servers)}
NoRun == [ids |-> <<>>, i |-> 0, results |-> <<>>]
Outcomes == {"healthy", "unhealthy", "throw"}

HWorld ==
    [hmIsRunning |-> hmIsRunning, healthCheckInterval |-> healthCheckInterval,
     hmTimers |-> hmTimers, serverHealthCheckers |-> serverHealthCheckers,
     healthHistory |-> healthHistory, failures |-> failures, tick |-> tick,
     forced |-> forced, hmEmitted |-> <<>>, streak |-> streak, nTicks |-> nTicks,
     nOps |-> nOps]

HCommit(h) ==
    /\ hmIsRunning' = h.hmIsRunning
    /\ healthCheckInterval' = h.healthCheckInterval
    /\ hmTimers' = h.hmTimers
    /\ serverHealthCheckers' = h.serverHealthCheckers
    /\ healthHistory' = h.healthHistory
    /\ failures' = h.failures
    /\ tick' = h.tick
    /\ forced' = h.forced
    /\ hmEmitted' = h.hmEmitted
    /\ streak' = h.streak
    /\ nTicks' = h.nTicks
    /\ nOps' = h.nOps
    /\ UNCHANGED <<smvars, fmvars, mhvars, stvars, amvars, xrvars, idvars, cvvars, xpvars>>

HEv(e, srv, n) == [ev |-> e, s |-> srv, n |-> n]
HEmit(h, e, srv, n) == [h EXCEPT !.hmEmitted = Append(@, HEv(e, srv, n))]

\* Map.set(k, v) and Map.get(k) || d on a partial map
MapSet(m, k, v) == [x \in DOMAIN m \cup {k} |-> IF x = k THEN v ELSE m[x]]
MapGet(m, k, d) == IF k \in DOMAIN m THEN m[k] ELSE d
EmptyMap == [x \in {} |-> 0]
Keys(q) == {q[i] : i \in 1..Len(q)}

\* updateHealthHistory(), lines 110-120
updateHealthHistory(h, srv, healthy) ==
    LET hist == Append(MapGet(h.healthHistory, srv, <<>>), healthy)
        kept == IF Len(hist) > HistoryWindow THEN Tail(hist) ELSE hist
    IN [h EXCEPT !.healthHistory = MapSet(@, srv, kept)]

\* a processHealthResult that reports only above maxFailures
processHealthResultStrict(h, srv, healthy) ==
    IF healthy
    THEN [h EXCEPT !.failures = MapSet(@, srv, 0)]
    ELSE LET newFailures == MapGet(h.failures, srv, 0) + 1
             h1 == [h EXCEPT !.failures = MapSet(@, srv, newFailures)]
         IN IF newFailures > maxFailures
            THEN HEmit(h1, "serverDown", srv, h.streak[srv])
            ELSE h1

\* a processHealthResult whose healthy branch clears every server's counter
processHealthResultShared(h, srv, healthy) ==
    IF healthy
    THEN [h EXCEPT !.failures = [x \in DOMAIN @ \cup {srv} |-> 0]]
    ELSE LET newFailures == MapGet(h.failures, srv, 0) + 1
             h1 == [h EXCEPT !.failures = MapSet(@, srv, newFailures)]
         IN IF newFailures >= maxFailures
            THEN HEmit(h1, "serverDown", srv, h.streak[srv])
            ELSE h1

\* processHealthResult(), lines 122-140
processHealthResult(h, srv, healthy) ==
    IF healthy
    THEN [h EXCEPT !.failures = MapSet(@, srv, 0)]
    ELSE LET newFailures == MapGet(h.failures, srv, 0) + 1
             h1 == [h EXCEPT !.failures = MapSet(@, srv, newFailures)]
         IN IF newFailures >= maxFailures
            THEN HEmit(h1, "serverDown", srv, h.streak[srv])
            ELSE h1

\* a checkSystemHealth comparing strictly below the thresholds
checkSystemHealthStrict(h, results) ==
    LET total == Len(results)
        healthyServers == Cardinality({i \in 1..total : results[i]})
        Below(tenths) == IF total > 0 THEN healthyServers * 10 < tenths * total
                         ELSE 10 < tenths
    IN IF Below(criticalTenths) THEN HEmit(h, "criticalFailure", "", healthyServers)
       ELSE IF Below(healthTenths) THEN HEmit(h, "systemDegraded", "", healthyServers)
       ELSE h

\* checkSystemHealth(), lines 142-161: healthy/total against the thresholds
checkSystemHealth(h, results) ==
    LET total == Len(results)
        healthyServers == Cardinality({i \in 1..total : results[i]})
        \* healthPercentage <= threshold, in tenths
        AtMost(tenths) == IF total > 0 THEN healthyServers * 10 <= tenths * total
                          ELSE 10 <= tenths
    IN IF AtMost(criticalTenths) THEN HEmit(h, "criticalFailure", "", healthyServers)
       ELSE IF AtMost(healthTenths) THEN HEmit(h, "systemDegraded", "", healthyServers)
       ELSE h

\* one probe result is recorded: the consecutive-unhealthy count of the server
\* (observer) and the monitor's own accounting
Probed(h, srv, healthy) ==
    LET n == IF healthy THEN 0 ELSE h.streak[srv] + 1
        h1 == HEmit([h EXCEPT !.streak[srv] = n],
                    IF healthy THEN "probeHealthy" ELSE "probeUnhealthy", srv, n)
    IN processHealthResult(updateHealthHistory(h1, srv, healthy), srv, healthy)

\* performHealthChecks(), lines 71-107: the loop from server i on, up to the
\* next await of a health checker
RECURSIVE performHealthChecksLoop(_)
performHealthChecksLoop(h) ==
    LET r == h.tick
    IN IF r.i > Len(r.ids)
       THEN [checkSystemHealth(HEmit(h, "healthCheck", "", Len(r.results)), r.results)
                EXCEPT !.tick = NoRun]
       ELSE IF r.ids[r.i] \in Keys(h.serverHealthCheckers)
            THEN h
            ELSE \* the checker is gone: calling undefined throws, the catch
                 \* block records an unhealthy result
                 performHealthChecksLoop(
                     [Probed(h, r.ids[r.i], FALSE) EXCEPT
                         !.tick = [r EXCEPT !.i = @ + 1, !.results = Append(@, FALSE)]])

\* stop(), lines 268-283
hmStop(h) ==
    [h EXCEPT !.hmIsRunning = FALSE,
              !.hmTimers = IF h.healthCheckInterval THEN @ - 1 ELSE @,
              !.healthCheckInterval = FALSE,
              !.serverHealthCheckers = <<>>,
              !.healthHistory = EmptyMap,
              !.failures = EmptyMap,
              !.streak = [x \in ServerIds |-> 0]]

\* scheduleHealthChecks(), lines 47-61
scheduleHealthChecks(h) ==
    [h EXCEPT !.hmTimers = (IF h.healthCheckInterval THEN @ - 1 ELSE @) + 1,
              !.healthCheckInterval = TRUE]

RECURSIVE Register(_, _)
Register(h, ids) ==
    IF ids = <<>> THEN h
    ELSE LET srv == Head(ids)
         IN Register([h EXCEPT
                !.serverHealthCheckers = IF srv \in Keys(@) THEN @ ELSE Append(@, srv),
                !.healthHistory = MapSet(@, srv, <<>>),
                !.failures = MapSet(@, srv, 0),
                !.streak[srv] = 0], Tail(ids))

\* startMonitoring(), lines 29-45
StartMonitoring ==
    /\ nOps < MaxOps
    /\ LET h0 == [HWorld EXCEPT !.nOps = @ + 1]
           h1 == IF hmIsRunning THEN hmStop(h0) ELSE h0
       IN HCommit(scheduleHealthChecks([Register(h1, Servers) EXCEPT !.hmIsRunning = TRUE]))

\* the health-check interval fires: performHealthChecks(), lines 63-74
HMTick ==
    /\ hmTimers > 0
    /\ hmIsRunning
    /\ tick = NoRun
    /\ nTicks < MaxTicks
    /\ HCommit(performHealthChecksLoop(
           [HWorld EXCEPT !.nTicks = @ + 1,
                          !.tick = [ids |-> serverHealthCheckers, i |-> 1, results |-> <<>>]]))

\* the awaited health checker settles: performHealthChecks(), lines 74-100
ProbeDone(outcome) ==
    /\ tick # NoRun
    /\ LET srv == tick.ids[tick.i]
           healthy == outcome = "healthy"
       IN HCommit(performHealthChecksLoop(
              [Probed(HWorld, srv, healthy) EXCEPT
                  !.tick = [tick EXCEPT !.i = @ + 1, !.results = Append(@, healthy)]]))

\* checkServer(), lines 223-230: a forced check is started
CheckServer(srv) ==
    /\ forced = NoRun
    /\ nOps < MaxOps
    /\ srv \in Keys(serverHealthCheckers)
    /\ HCommit([HWorld EXCEPT !.nOps = @ + 1,
                              !.forced = [ids |-> <<srv>>, i |-> 1, results |-> <<>>]])

\* checkServer(), lines 230-259: the awaited health checker settles
ForcedDone(outcome) ==
    /\ forced # NoRun
    /\ HCommit([Probed(HWorld, forced.ids[1], outcome = "healthy") EXCEPT !.forced = NoRun])

\* the coordinator stops the monitor
HMStop ==
    /\ hmIsRunning
    /\ nOps < MaxOps
    /\ HCommit(hmStop([HWorld EXCEPT !.nOps = @ + 1]))

\* performHealthChecks(), lines 103-107: the end of a tick whose probes are
\* all recorded
FinishTick ==
    /\ tick # NoRun
    /\ tick.i > Len(tick.ids)
    /\ HCommit(performHealthChecksLoop(HWorld))

NextHM ==
    \/ StartMonitoring
    \/ HMTick
    \/ \E o \in Outcomes : ProbeDone(o)
    \/ \E srv \in ServerIds : CheckServer(srv)
    \/ \E o \in Outcomes : ForcedDone(o)
    \/ HMStop


\* --------------------------------------------------------- FriendManager
\* bounds of the FriendManager specification
maxConcurrentRequests == 1
MaxFMCalls == 3

\* the authenticated accounts, in configuration order
AccountList == <<"a1", "a2">>
NumAccounts == Len(AccountList)

FWorld ==
    [fmFriendships |-> fmFriendships, requestQueue |-> requestQueue,
     fmIsProcessing |-> fmIsProcessing, inflight |-> inflight, loops |-> loops,
     follows |-> follows, fmEmitted |-> <<>>, allOk |-> allOk, nextId |-> nextId,
     nFMCalls |-> nFMCalls]

FCommit(f) ==
    /\ fmFriendships' = f.fmFriendships
    /\ requestQueue' = f.requestQueue
    /\ fmIsProcessing' = f.fmIsProcessing
    /\ inflight' = f.inflight
    /\ loops' = f.loops
    /\ follows' = f.follows
    /\ fmEmitted' = f.fmEmitted
    /\ allOk' = f.allOk
    /\ nextId' = f.nextId
    /\ nFMCalls' = f.nFMCalls
    /\ UNCHANGED <<smvars, hmvars, mhvars, stvars, amvars, xrvars, idvars, cvvars, xpvars>>

FEv(e, a, b) == [ev |-> e, a |-> a, b |-> b]
FEmit(f, e, a, b) == [f EXCEPT !.fmEmitted = Append(@, FEv(e, a, b))]

\* setupCrossFriendships(), lines 32-45: the ordered pairs, i outer, j inner
RECURSIVE friendshipTasks(_, _, _)
friendshipTasks(i, j, id) ==
    IF i > NumAccounts THEN <<>>
    ELSE IF j > NumAccounts THEN friendshipTasks(i + 1, 1, id)
    ELSE IF i = j THEN friendshipTasks(i, j + 1, id)
    ELSE <<[id |-> id + 1, from |-> AccountList[i], to |-> AccountList[j]]>>
             \o friendshipTasks(i, j + 1, id + 1)

\* processFriendshipTask(), lines 80-90: up to the await of the status GET
processFriendshipTask(f, task, loop) ==
    IF <<task.from, task.to>> \in f.fmFriendships THEN f
    ELSE FEmit([f EXCEPT !.inflight = @ \cup {[id |-> task.id, from |-> task.from,
                                               to |-> task.to, pc |-> "get", loop |-> loop]}],
               "GET", task.from, task.to)

\* processRequestQueue(), line 66: batch.map(task => processFriendshipTask(task))
RECURSIVE startBatch(_, _, _)
startBatch(f, batch, loop) ==
    IF batch = <<>> THEN f
    ELSE startBatch(processFriendshipTask(f, Head(batch), loop), Tail(batch), loop)

\* processRequestQueue(), lines 75-77, and setupCrossFriendships(), line 51
finishLoop(f, loop) ==
    FEmit([f EXCEPT !.fmIsProcessing = FALSE, !.loops[loop] = "done"],
          "setupCompleted", loop, 0)

\* processRequestQueue(), lines 68-73: the batch has settled
afterBatch(f, loop) ==
    IF f.requestQueue # <<>> THEN [f EXCEPT !.loops[loop] = "delay"]
    ELSE finishLoop(f, loop)

Min(a, b) == IF a <= b THEN a ELSE b

\* processRequestQueue(), lines 64-68: one iteration of the while loop
runLoop(f, loop) ==
    IF f.requestQueue = <<>> THEN finishLoop(f, loop)
    ELSE LET k == Min(maxConcurrentRequests, Len(f.requestQueue))
             batch == SubSeq(f.requestQueue, 1, k)
             f1 == startBatch([f EXCEPT !.requestQueue = SubSeq(@, k + 1, Len(@)),
                                        !.loops[loop] = "batch"], batch, loop)
         IN IF \E t \in f1.inflight : t.loop = loop THEN f1 ELSE afterBatch(f1, loop)

\* processRequestQueue(), lines 54-62
processRequestQueue(f) ==
    IF f.fmIsProcessing \/ f.requestQueue = <<>>
    THEN FEmit(f, "setupCompleted", 0, 0)
    ELSE LET loop == Len(f.loops) + 1
         IN runLoop([f EXCEPT !.fmIsProcessing = TRUE, !.loops = Append(@, "batch")], loop)

\* setupCrossFriendships(), lines 26-52
setupCrossFriendships(f) ==
    LET tasks == friendshipTasks(1, 1, f.nextId)
    IN processRequestQueue([f EXCEPT !.requestQueue = @ \o tasks,
                                     !.nextId = @ + Len(tasks)])

\* a friendship task settles: Promise.allSettled of its batch may resolve
settleTask(f, task) ==
    LET f1 == [f EXCEPT !.inflight = @ \ {task}]
    IN IF \E t \in f1.inflight : t.loop = task.loop THEN f1 ELSE afterBatch(f1, task.loop)

\* a getHealthStatus that is unhealthy at exactly 50%
fmHealthyAbove(friendships) ==
    LET expectedFriendships == NumAccounts * (NumAccounts - 1)
    IN IF expectedFriendships > 0
       THEN ~(Cardinality(friendships) * 100 <= 50 * expectedFriendships)
       ELSE TRUE

\* getHealthStatus(), lines 261-284: healthPercentage >= 50
fmHealthy(friendships) ==
    LET expectedFriendships == NumAccounts * (NumAccounts - 1)
    IN IF expectedFriendships > 0
       THEN ~(Cardinality(friendships) * 100 < 50 * expectedFriendships)
       ELSE TRUE

SetupCrossFriendships ==
    /\ nFMCalls < MaxFMCalls
    /\ FCommit(setupCrossFriendships([FWorld EXCEPT !.nFMCalls = @ + 1]))

\* refreshFriendships(), lines 167-177
RefreshFriendships ==
    /\ nFMCalls < MaxFMCalls
    /\ FCommit(setupCrossFriendships([FWorld EXCEPT !.nFMCalls = @ + 1,
                                                    !.fmFriendships = {}]))

\* stop(), lines 286-295
FMStop ==
    /\ nFMCalls < MaxFMCalls
    /\ FCommit([FWorld EXCEPT !.nFMCalls = @ + 1, !.requestQueue = <<>>,
                              !.fmIsProcessing = FALSE])

\* the status GET of checkFriendshipStatus is answered: lines 137-147 and
\* processFriendshipTask(), lines 91-102
StatusResponse(ok) ==
    \E task \in inflight :
        /\ task.pc = "get"
        /\ LET f == [FWorld EXCEPT !.allOk = @ /\ ok]
               areAlreadyFriends == ok /\ (<<task.from, task.to>> \in follows
                                           \/ <<task.to, task.from>> \in follows)
           IN FCommit(IF areAlreadyFriends
                      THEN settleTask([f EXCEPT !.fmFriendships = @ \cup {<<task.from, task.to>>}], task)
                      ELSE FEmit([f EXCEPT !.inflight = (@ \ {task}) \cup {[task EXCEPT !.pc = "put"]}],
                                 "PUT", task.from, task.to))

\* the follow PUT of sendFriendRequest is answered: lines 160-164 and
\* processFriendshipTask(), lines 104-124
FollowResponse(ok) ==
    \E task \in inflight :
        /\ task.pc = "put"
        /\ LET f == [FWorld EXCEPT !.allOk = @ /\ ok]
           IN FCommit(IF ok
                      THEN settleTask(FEmit([f EXCEPT !.follows = @ \cup {<<task.from, task.to>>},
                                                      !.fmFriendships = @ \cup {<<task.from, task.to>>}],
                                            "friendshipEstablished", task.from, task.to), task)
                      ELSE settleTask(FEmit(f, "error", task.from, task.to), task))

\* the delay between two batches elapses: processRequestQueue(), lines 72, 64
BatchDelayElapsed(loop) ==
    /\ loop \in 1..Len(loops)
    /\ loops[loop] = "delay"
    /\ FCommit(runLoop(FWorld, loop))

NextFM ==
    \/ SetupCrossFriendships
    \/ RefreshFriendships
    \/ FMStop
    \/ \E ok \in BOOLEAN : StatusResponse(ok)
    \/ \E ok \in BOOLEAN : FollowResponse(ok)
    \/ \E loop \in 1..MaxFMCalls : BatchDelayElapsed(loop)


\* the session manager and its FriendConnectManager before initialize()
InitSM ==
    /\ sessionInstance = 0
    /\ heartbeatInterval = FALSE
    /\ reconnectAttempts = 0
    /\ isRunning = FALSE
    /\ timers = 0
    /\ clock = 0
    /\ live = {}
    /\ recovering = FALSE
    /\ initialized = FALSE
    /\ registered = FALSE
    /\ autoRecover \in BOOLEAN
    /\ stacks = [t \in Tasks |-> <<>>]
    /\ emitted = <<>>
    /\ quiet = FALSE
    /\ started = FALSE
    /\ nRecovers = 0
    /\ nStops = 0
    /\ activeServers = 0
    /\ cfgAutoReconnect = TRUE

\* a constructed HealthMonitor
InitHM ==
    /\ hmIsRunning = FALSE
    /\ healthCheckInterval = FALSE
    /\ hmTimers = 0
    /\ serverHealthCheckers = <<>>
    /\ healthHistory = EmptyMap
    /\ failures = EmptyMap
    /\ tick = NoRun
    /\ forced = NoRun
    /\ hmEmitted = <<>>
    /\ streak = [x \in ServerIds |-> 0]
    /\ nTicks = 0
    /\ nOps = 0

\* a constructed FriendManager
InitFM ==
    /\ fmFriendships = {}
    /\ requestQueue = <<>>
    /\ fmIsProcessing = FALSE
    /\ inflight = {}
    /\ loops = <<>>
    /\ follows = {}
    /\ fmEmitted = <<>>
    /\ allOk = TRUE
    /\ nextId = 0
    /\ nFMCalls = 0

AccountIds == 1..Len(AccountList)

\* a constructed AuthManager
InitAM ==
    /\ amCall = "idle"
    /\ amState = [i \in AccountIds |-> "idle"]
    /\ amMethod = [i \in AccountIds |-> 0]
    /\ amAttempt = [i \in AccountIds |-> 0]
    /\ amSuccessful = <<>>
    /\ amEmitted = <<>>

NoIdentity == [xuid |-> 0]

\* a constructed XboxAuthRecovery and an empty token directory
InitXR ==
    /\ xrCall = "idle"
    /\ xrRound = 0
    /\ xrStrategy = 0
    /\ xrChains = <<>>
    /\ xrStart = 0
    /\ xrClock = 0
    /\ xrIdentity = NoIdentity
    /\ tokenDir = {}
    /\ xrEmitted = <<>>

NoAccount == [account |-> 0, gen |-> 0]

\* no account authenticated, no SessionManager constructed
InitID ==
    /\ idAuth = [i \in AccountIds |-> 0]
    /\ idBusy = {}
    /\ hostAccount = NoAccount
    /\ allAccounts = <<>>
    /\ idUsed = <<>>
    /\ idEmitted = <<>>

NoConfig == [none |-> TRUE]

\* parseXSTSResponse() not called
InitXP ==
    /\ xpBody = NoConfig
    /\ xpResult = NoConfig

\* validate() not called
InitCV ==
    /\ cvInput = NoConfig
    /\ cvResult = NoConfig

NoInput == [initialized |-> FALSE]
NoResult == [healthy |-> FALSE, reason |-> <<"none">>]

\* no getHealthStatus() call has been made
InitMH ==
    /\ mhInput = NoInput
    /\ mhResult = NoResult

\* the coordinator before initializeServers()
InitST ==
    /\ numServers = 0
    /\ continueOnServerFailure = FALSE
    /\ srvI = 0
    /\ managers = {}
    /\ srvFailed = {}
    /\ startup = "idle"

Init == InitSM /\ InitHM /\ InitFM /\ InitMH /\ InitST /\ InitAM /\ InitXR /\ InitID /\ InitCV /\ InitXP

Next ==
    \/ \E ok \in BOOLEAN : AuthDone(ok)
    \/ FriendSetupDone
    \/ Initialize
    \/ \E t \in Tasks, ok \in BOOLEAN : CreatePutResponse(t, ok)
    \/ \E t \in Tasks, ok \in BOOLEAN : JoinPutResponse(t, ok)
    \/ \E t \in Tasks : JoinDelayElapsed(t)
    \/ \E t \in Tasks : ReconnectDelayElapsed(t)
    \/ \E t \in Tasks : DeleteResponse(t)
    \/ HeartbeatTick
    \/ \E ok \in BOOLEAN : HeartbeatResponse(ok)
    \/ RefreshTokensDone
    \/ RefreshFriendshipsDone
    \/ RecoverServer
    \/ ManagerStop

Spec == Init /\ [][Next]_vars

SpecHM == Init /\ [][NextHM]_vars

SpecFM == Init /\ [][NextFM]_vars

\* ------------------------------------------------ the end of a health tick
\* the most servers one tick has probed
MaxProbed == 10

BoolSeqs(n) == [1..n -> BOOLEAN]

\* a tick of a running monitor that has recorded the results of all its
\* n >= 0 servers and is about to emit healthCheck
InitTick ==
    /\ sessionInstance = 0
    /\ heartbeatInterval = FALSE
    /\ reconnectAttempts = 0
    /\ isRunning = FALSE
    /\ timers = 0
    /\ clock = 0
    /\ live = {}
    /\ recovering = FALSE
    /\ initialized = FALSE
    /\ registered = FALSE
    /\ autoRecover = TRUE
    /\ stacks = [t \in Tasks |-> <<>>]
    /\ emitted = <<>>
    /\ quiet = FALSE
    /\ started = FALSE
    /\ nRecovers = 0
    /\ nStops = 0
    /\ activeServers = 0
    /\ cfgAutoReconnect = TRUE
    /\ hmIsRunning = TRUE
    /\ healthCheckInterval = TRUE
    /\ hmTimers = 1
    /\ serverHealthCheckers = Servers
    /\ healthHistory = EmptyMap
    /\ failures = EmptyMap
    /\ \E n \in 0..MaxProbed : \E res \in BoolSeqs(n) :
          tick = [ids |-> [j \in 1..n |-> ToString(j)], i |-> n + 1, results |-> res]
    /\ forced = NoRun
    /\ hmEmitted = <<>>
    /\ streak = [x \in ServerIds |-> 0]
    /\ nTicks = 1
    /\ nOps = 1
    /\ fmFriendships = {}
    /\ requestQueue = <<>>
    /\ fmIsProcessing = FALSE
    /\ inflight = {}
    /\ loops = <<>>
    /\ follows = {}
    /\ fmEmitted = <<>>
    /\ allOk = TRUE
    /\ nextId = 0
    /\ nFMCalls = 0
    /\ InitMH
    /\ InitST
    /\ InitAM
    /\ InitXR
    /\ InitID
    /\ InitCV
    /\ InitXP

SpecTick == InitTick /\ [][FinishTick]_vars

TypeOK ==
    /\ sessionInstance \in 0..MaxClock
    /\ timers \in 0..3
    /\ reconnectAttempts \in 0..(maxReconnectAttempts + 1)

\* ------------------------------------------------------------ properties
Range(q) == {q[i] : i \in 1..Len(q)}
AllFrames == UNION {Range(stacks[t]) : t \in Tasks}
InSessionManager(t) ==
    \E f \in Range(stacks[t]) :
        f.pc \in {"cs_stop", "cs_create", "cs_join", "cs_ar", "xl_put", "jo", "jo_put",
                  "jo_delay", "ar_delay", "ar_cs", "ar_ar", "st_del", "hb_put"}

\* the probe of srv processed in the turn that emitted q ("none" if there was
\* none; a turn probes a server at most once)
ProbeOf(q, srv) ==
    IF \E i \in 1..Len(q) : q[i].s = srv /\ q[i].ev = "probeHealthy" THEN "probeHealthy"
    ELSE IF \E i \in 1..Len(q) : q[i].s = srv /\ q[i].ev = "probeUnhealthy" THEN "probeUnhealthy"
    ELSE "none"

\* C1: at most one session that was PUT by this SessionManager and for which
\* no DELETE has been sent exists at any instant.
C1_AtMostOneLiveSession == Cardinality(live) <= 1

\* C2: once stop() has returned (and no createSession has been started since),
\* no heartbeat interval is armed and no heartbeat PUT is sent.
C2_NoHeartbeatAfterStop ==
    quiet => /\ timers = 0
             /\ ~heartbeatInterval
             /\ \A e \in Range(emitted) : e.ev # "heartbeatPUT"

\* C3: within one ladder (one task's chain of createSession/attemptReconnect
\* after a triggering failure) at most maxReconnectAttempts attempts are made.
C3_AttemptsBounded == \A f \in AllFrames : f.k <= maxReconnectAttempts

\* C4: when the maxReconnectAttempts-th attempt of a ladder has failed too, the
\* manager is not running and exactly one 'Max reconnect attempts exceeded'
\* error is emitted.
C4_SingleMaxError ==
    Ev("createFailed", maxReconnectAttempts) \in Range(emitted)
        => /\ Cardinality({i \in 1..Len(emitted) : emitted[i].ev = "error:max"}) = 1
           /\ ~isRunning

C6_StopCancelsRetry == \A f \in AllFrames : f.pc = "ar_cs" => f.x = 0

\* C7: no two independently triggered runs of createSession, performHeartbeat,
\* stop and attemptReconnect are in progress at the same time.
C7_Serialized == Cardinality({t \in Tasks : InSessionManager(t)}) <= 1

\* C8: the k-th attempt of a ladder (k <= maxReconnectAttempts) sleeps at least
\* reconnectDelay * 2^(k-1).
C8_BackoffAtLeast ==
    \A f \in AllFrames :
        (f.pc = "ar_delay" /\ f.k <= maxReconnectAttempts)
            => f.v >= reconnectDelay * (2 ^ (f.k - 1))

\* C5 (as the code has it): a failure of createSession made while
\* reconnectAttempts < maxReconnectAttempts starts attemptReconnect: the
\* counter is incremented, 'reconnectAttempt' is emitted, the run sleeps
\* reconnectDelay * 2^(n-1) and createSession is invoked again when the sleep
\* elapses; otherwise 'error' is emitted.  A heartbeat failure only emits
\* 'error': no reconnect run is started and the counter is not incremented.
C5_CreateFailure ==
    \A i \in 1..Len(emitted) :
        emitted[i].ev = "createFailed" =>
            /\ i < Len(emitted)
            /\ \/ /\ emitted[i + 1].ev = "reconnectAttempt"
                  /\ emitted[i + 1].a \in 1..maxReconnectAttempts
               \/ /\ emitted[i + 1].ev = "error:create"
                  /\ emitted[i + 1].a >= maxReconnectAttempts

C5_ReconnectRun ==
    \A i \in 1..Len(emitted) :
        emitted[i].ev = "reconnectAttempt" =>
            /\ \E j \in 1..Len(emitted) : j < i /\ emitted[j].ev = "createFailed"
            /\ \E t \in Tasks :
                 /\ TopPc(t) = "ar_delay"
                 /\ stacks[t][Len(stacks[t])].v = reconnectDelay * (2 ^ (emitted[i].a - 1))

C5_HeartbeatFailure ==
    \A i \in 1..Len(emitted) :
        emitted[i].ev = "heartbeatFailed" =>
            /\ i < Len(emitted)
            /\ emitted[i + 1].ev = "error:heartbeat"
            /\ reconnectAttempts <= emitted[i + 1].a
            /\ \A e \in Range(emitted) : e.ev # "reconnectAttempt"

C5_BackoffThenCreate ==
    \A t \in Tasks :
        (TopPc(t) = "ar_delay" /\ TopPc(t)' # "ar_delay")
            => \E e \in Range(emitted') : e.ev = "creating"

C9_ServerDownAtMaxFailures ==
    \A i \in 1..Len(hmEmitted) :
        /\ hmEmitted[i].ev = "serverDown" => hmEmitted[i].n >= maxFailures
        /\ (hmEmitted[i].ev = "probeUnhealthy" /\ hmEmitted[i].n = maxFailures)
              => /\ i < Len(hmEmitted)
                 /\ hmEmitted[i + 1] = HEv("serverDown", hmEmitted[i].s, maxFailures)

C9_Witness ==
    \E i \in 1..Len(hmEmitted) :
        hmEmitted[i].ev = "serverDown" /\ hmEmitted[i].n = maxFailures

\* C10: within one streak of unhealthy probes exactly one serverDown is
\* emitted: the probes after the maxFailures-th emit none.
C10_OneServerDownPerStreak ==
    \A i \in 1..Len(hmEmitted) :
        hmEmitted[i].ev = "serverDown" => hmEmitted[i].n = maxFailures

\* C11: every server has its own failure counter: a healthy probe of a server
\* sets that server's counter to zero, an unhealthy probe adds one to that
\* server's counter, and a probe changes no other server's counter.
C11_Step ==
    (\E e \in Range(hmEmitted') : e.ev \in {"probeHealthy", "probeUnhealthy"}) =>
        \A srv \in ServerIds :
            LET before == MapGet(failures, srv, 0)
                after == MapGet(failures', srv, 0)
            IN /\ ProbeOf(hmEmitted', srv) = "probeHealthy" => after = 0
               /\ ProbeOf(hmEmitted', srv) = "probeUnhealthy" => after = before + 1
               /\ ProbeOf(hmEmitted', srv) = "none" =>
                     /\ after = before
                     /\ (srv \in DOMAIN failures') = (srv \in DOMAIN failures)

C11_IndependentCounters == [][C11_Step]_vars

C11_Witness ==
    /\ \E e \in Range(hmEmitted) : e.ev = "probeHealthy" /\ e.s = "s2"
    /\ ProbeOf(hmEmitted, "s1") = "none"
    /\ "s1" \in DOMAIN failures /\ failures["s1"] = 2
    /\ "s2" \in DOMAIN failures /\ failures["s2"] = 0

\* C12: on every health tick that probed at least one server, with healthy of
\* total servers healthy: healthCheck is emitted; criticalFailure is emitted
\* iff healthy/total <= 0.3; systemDegraded is emitted iff
\* 0.3 < healthy/total <= 0.8; the two are never emitted together; and none of
\* the three is emitted by a step that does not finish a tick.
EmittedBy(q, e) == \E i \in 1..Len(q) : q[i].ev = e

C12_Step ==
    LET total == Len(tick.ids)
        healthy == Cardinality({i \in 1..Len(tick.results) : tick.results[i]})
                   + Cardinality({i \in 1..Len(hmEmitted') : hmEmitted'[i].ev = "probeHealthy"})
        finishes == tick # NoRun /\ tick' = NoRun
    IN /\ (finishes /\ total > 0) =>
            /\ HEv("healthCheck", "", total) \in Range(hmEmitted')
            /\ EmittedBy(hmEmitted', "criticalFailure")
                 <=> healthy * 10 <= criticalTenths * total
            /\ EmittedBy(hmEmitted', "systemDegraded")
                 <=> (criticalTenths * total < healthy * 10 /\ healthy * 10 <= healthTenths * total)
            /\ ~(EmittedBy(hmEmitted', "criticalFailure") /\ EmittedBy(hmEmitted', "systemDegraded"))
       /\ ~finishes =>
            \A e \in {"healthCheck", "criticalFailure", "systemDegraded"} : ~EmittedBy(hmEmitted', e)

C12_SystemHealthEvents == [][C12_Step]_vars

C12_Witness ==
    \E i \in 1..Len(hmEmitted) :
        /\ hmEmitted[i] = HEv("healthCheck", "", 10)
        /\ i < Len(hmEmitted)
        /\ hmEmitted[i + 1] = HEv("criticalFailure", "", 3)

\* C13: when every social GET and PUT succeeds, a setupCrossFriendships call
\* (the only call made) ends with an established edge recorded for every
\* ordered pair of distinct accounts, and every such pair is really followed.
OrderedPairs == {p \in Range(AccountList) \X Range(AccountList) : p[1] # p[2]}

C13_BothDirectionsFollowed ==
    (nFMCalls = 1 /\ allOk /\ EmittedBy(fmEmitted, "setupCompleted")) =>
        \A p \in OrderedPairs : p \in fmFriendships /\ p \in follows

\* C14: the number of friendship tasks in flight never exceeds
\* maxConcurrentRequests, for any sequence of setupCrossFriendships,
\* refreshFriendships and stop calls.
C14_ConcurrencyBounded == Cardinality(inflight) <= maxConcurrentRequests

\* C15: a failed follow PUT emits 'error' and nothing else: no edge is
\* recorded, the queue and the other tasks in flight are left as they were and
\* the run goes on to its next batch or completes; getHealthStatus is healthy
\* iff at least half of the N*(N-1) expected edges are recorded.
C15_Step ==
    (\E e \in Range(fmEmitted') : e.ev = "error") =>
        /\ fmFriendships' = fmFriendships
        /\ follows' = follows
        /\ requestQueue' = requestQueue
        /\ inflight' \subseteq inflight
        /\ Cardinality(inflight \ inflight') = 1
        /\ \A t \in inflight \ inflight' :
              \/ \E u \in inflight' : u.loop = t.loop
              \/ loops'[t.loop] = "delay" /\ requestQueue' # <<>>
              \/ loops'[t.loop] = "done" /\ FEv("setupCompleted", t.loop, 0) \in Range(fmEmitted')

C15_HealthIffHalf ==
    fmHealthy(fmFriendships) <=> 2 * Cardinality(fmFriendships) >= NumAccounts * (NumAccounts - 1)

C15_FailedPutIsNotFatal == []C15_HealthIffHalf /\ [][C15_Step]_vars

C15_Witness ==
    /\ \E e \in Range(fmEmitted) : e.ev = "error"
    /\ \E e \in Range(fmEmitted) : e.ev = "setupCompleted"
    /\ 2 * Cardinality(fmFriendships) = NumAccounts * (NumAccounts - 1)
    /\ fmHealthy(fmFriendships)

\* C16: initialize() performs its stages strictly in the order authentication,
\* setupCrossFriendships, createSession: the friendship setup is started only
\* by the step that ends the wait for authentication, no session PUT is sent
\* while initialize still waits for authentication or for the friendship
\* setup, and no heartbeat tick fires before initialize's createSession has
\* returned.
C16_Step ==
    /\ EmittedBy(emitted', "setupCrossFriendships") => TopPc("init") = "in_auth"
    /\ EmittedBy(emitted', "PUT") =>
          /\ started'
          /\ TopPc("init")' \notin {"in_auth", "in_friends"}
    /\ EmittedBy(emitted', "heartbeatPUT") => stacks["init"] = <<>>
C16_StagesInOrder == [][C16_Step]_vars

\* C17: at most one recovery runs per manager at a time.  The in-flight flag
\* is set exactly while a recover() run is suspended; while it is set no
\* further recovery starts, whatever the trigger (a session 'error' event or
\* the coordinator's serverDown listener), and a recover() call made then
\* only logs: no session is stopped, no token or friendship refreshed, no
\* session created, no request sent.
C17_Step ==
    recovering =>
        /\ nRecovers' = nRecovers
        /\ EmittedBy(emitted', "alreadyRecovering") =>
              /\ emitted' = <<Ev("alreadyRecovering", 0)>>
              /\ UNCHANGED <<sessionInstance, heartbeatInterval, reconnectAttempts,
                             isRunning, timers, clock, live, recovering, initialized,
                             registered, stacks, quiet>>
C17_FlagTracksRun == recovering <=> stacks["rec"] # <<>>
C17_SingleRecovery == []C17_FlagTracksRun /\ [][C17_Step]_vars
C17_Witness ==
    /\ recovering
    /\ EmittedBy(emitted, "alreadyRecovering")
    /\ TopPc("rec") \in {"rc_refresh", "rc_friends", "xl_put"}

\* C18: when recover() finishes, the in-flight flag is cleared; 'recovered'
\* is emitted only if a session is then running, and whenever no session is
\* running 'recoveryFailed' is emitted.  Stated for the runs in which the
\* manager is not being stopped, so that a recovery can only miss its session
\* by a failing step.
C18_Step ==
    (stacks["rec"] # <<>> /\ stacks["rec"]' = <<>> /\ nStops' = 0) =>
        /\ ~recovering'
        /\ EmittedBy(emitted', "recovered") => (isRunning' /\ sessionInstance' # 0)
        /\ ~(isRunning' /\ sessionInstance' # 0) => EmittedBy(emitted', "recoveryFailed")
C18_FailedRecoveryReported == [][C18_Step]_vars

\* ---------------------------------- FriendConnectManager.getHealthStatus
\* program constants
maxInactivityTime == 300000
heartbeatIntervalMs == 60000

Health(h, r) == [healthy |-> h, reason |-> r]

\* SessionManager.getHealthStatus(), lines 317-341
sessionGetHealthStatus(in) ==
    IF ~in.isRunning \/ ~in.hasSession
    THEN Health(FALSE, <<"Session not running">>)
    ELSE IF (IF in.hasHeartbeat THEN in.sinceHeartbeat > heartbeatIntervalMs * 2 ELSE TRUE)
         THEN Health(FALSE, <<"No heartbeat">>)
         ELSE Health(TRUE, <<>>)

\* AuthManager.getHealthStatus(), lines 266-302
authGetHealthStatus(in) ==
    IF in.nAccounts = 0 THEN Health(FALSE, <<"No authenticated accounts">>)
    ELSE IF in.nExpiring > 0 THEN Health(FALSE, <<"tokens expiring soon">>)
    ELSE Health(TRUE, <<>>)

\* FriendManager.getHealthStatus(), lines 261-284
friendGetHealthStatus(in) ==
    IF fmHealthy(in.friendships) THEN Health(TRUE, <<>>)
    ELSE Health(FALSE, <<"friendships established below half">>)

\* FriendConnectManager.getHealthStatus(), lines 272-313
getHealthStatus(in) ==
    IF ~in.initialized THEN Health(FALSE, <<"Not initialized">>)
    ELSE IF in.sinceActivity > maxInactivityTime THEN Health(FALSE, <<"No activity">>)
    ELSE LET sessionHealth == sessionGetHealthStatus(in)
             authHealth == authGetHealthStatus(in)
         IN IF ~sessionHealth.healthy
            THEN Health(FALSE, <<"Session unhealthy">> \o sessionHealth.reason)
            ELSE IF ~authHealth.healthy
                 THEN Health(FALSE, <<"Auth unhealthy">> \o authHealth.reason)
                 ELSE Health(TRUE, <<>>)

\* what a call can find: the manager's flag, the time since the last activity
\* and heartbeat (on both sides of their limits), the authenticated accounts
\* and those whose token is expiring, and the recorded friendships
MHInputs ==
    {in \in [initialized : BOOLEAN,
             sinceActivity : {0, maxInactivityTime, maxInactivityTime + 1},
             isRunning : BOOLEAN, hasSession : BOOLEAN, hasHeartbeat : BOOLEAN,
             sinceHeartbeat : {0, heartbeatIntervalMs * 2, heartbeatIntervalMs * 2 + 1},
             sinceCreation : {0, heartbeatIntervalMs * 2 + 1},
             nAccounts : 0..NumAccounts, nExpiring : 0..NumAccounts,
             friendships : SUBSET OrderedPairs] :
        /\ in.nExpiring <= in.nAccounts
        /\ ~in.hasHeartbeat => in.sinceHeartbeat = 0
        \* the time since createSession succeeded matters only for a session
        \* whose first heartbeat has not succeeded yet
        /\ (in.hasHeartbeat \/ ~in.hasSession) => in.sinceCreation = 0}

InitMHCall ==
    /\ mhInput \in MHInputs
    /\ mhResult = NoResult

\* one getHealthStatus() call (its awaits are on functions without I/O)
GetHealthStatus ==
    /\ mhResult = NoResult
    /\ mhResult' = getHealthStatus(mhInput)
    /\ UNCHANGED <<mhInput, smvars, hmvars, fmvars, stvars, amvars, xrvars, idvars, cvvars, xpvars>>

InitHealth == InitSM /\ InitHM /\ InitFM /\ InitMHCall /\ InitST /\ InitAM /\ InitXR /\ InitID /\ InitCV /\ InitXP

SpecMH == InitHealth /\ [][GetHealthStatus]_vars

\* C19: getHealthStatus returns unhealthy if the manager is not initialized,
\* if more than maxInactivityTime has passed since the last activity, or if
\* the session manager, the auth manager or the friend manager reports
\* unhealthy, with the reason of the first of these; and healthy otherwise.
C19_UnhealthyIffAnyCause ==
    LET expected(in) ==
            IF ~in.initialized THEN Health(FALSE, <<"Not initialized">>)
            ELSE IF in.sinceActivity > maxInactivityTime THEN Health(FALSE, <<"No activity">>)
            ELSE IF ~sessionGetHealthStatus(in).healthy
                 THEN Health(FALSE, <<"Session unhealthy">> \o sessionGetHealthStatus(in).reason)
            ELSE IF ~authGetHealthStatus(in).healthy
                 THEN Health(FALSE, <<"Auth unhealthy">> \o authGetHealthStatus(in).reason)
            ELSE IF ~friendGetHealthStatus(in).healthy
                 THEN Health(FALSE, <<"Friends unhealthy">> \o friendGetHealthStatus(in).reason)
            ELSE Health(TRUE, <<>>)
    IN mhResult # NoResult => mhResult = expected(mhInput)

\* ------------------------------------- the coordinator's initializeServers
\* the most servers a configuration lists
MaxServers == 4

STWorld ==
    [srvI |-> srvI, managers |-> managers, srvFailed |-> srvFailed, startup |-> startup]

STCommit(st) ==
    /\ srvI' = st.srvI
    /\ managers' = st.managers
    /\ srvFailed' = st.srvFailed
    /\ startup' = st.startup
    /\ UNCHANGED <<numServers, continueOnServerFailure, smvars, hmvars, fmvars, mhvars, amvars, xrvars, idvars, cvvars, xpvars>>

\* initializeServers(), lines 114-115 and 150-153: the next iteration of the
\* loop, or the check that follows the loop
initializeServersLoop(st, i) ==
    IF i <= numServers
    THEN [st EXCEPT !.srvI = i, !.startup = "running"]
    ELSE [st EXCEPT !.startup = IF st.managers = {} THEN "failed" ELSE "ok"]

\* a catch block that continues whatever the setting
initializeServersCatchAlways(st) ==
    initializeServersLoop([st EXCEPT !.srvFailed = @ \cup {st.srvI}], st.srvI + 1)

\* initializeServers(), lines 140-147: the catch block
initializeServersCatch(st) ==
    LET st1 == [st EXCEPT !.srvFailed = @ \cup {st.srvI}]
    IN IF continueOnServerFailure
       THEN initializeServersLoop(st1, st.srvI + 1)
       ELSE [st1 EXCEPT !.startup = "failed"]

\* initializeServers(), lines 131-138: manager.initialize() resolved
initializeServersRegister(st) ==
    initializeServersLoop([st EXCEPT !.managers = @ \cup {st.srvI}], st.srvI + 1)

\* the coordinator with its configuration loaded, before initializeServers()
InitSTCall ==
    /\ numServers \in 0..MaxServers
    /\ continueOnServerFailure \in BOOLEAN
    /\ srvI = 0
    /\ managers = {}
    /\ srvFailed = {}
    /\ startup = "idle"

\* initializeServers() is called: up to the first await of manager.initialize()
InitializeServers ==
    /\ startup = "idle"
    /\ STCommit(initializeServersLoop(STWorld, 1))

\* the awaited manager.initialize() of server srvI settles
ManagerInitializeSettled(ok) ==
    /\ startup = "running"
    /\ STCommit(IF ok THEN initializeServersRegister(STWorld)
                ELSE initializeServersCatch(STWorld))

NextST ==
    \/ InitializeServers
    \/ \E ok \in BOOLEAN : ManagerInitializeSettled(ok)

InitStartup == InitSM /\ InitHM /\ InitFM /\ InitMH /\ InitSTCall /\ InitAM /\ InitXR /\ InitID /\ InitCV /\ InitXP

SpecST == InitStartup /\ [][NextST]_vars

\* C20: a server whose initialize fails is never registered.  With
\* continueOnServerFailure every server of the configuration has been tried
\* when initializeServers ends; without it the first failure fails the
\* startup and no later server is tried.  A startup that registered no
\* server fails.
C20_ContinueOrAbort ==
    LET tried == managers \cup srvFailed
        ended == startup \in {"ok", "failed"}
    IN /\ managers \cap srvFailed = {}
       /\ (continueOnServerFailure /\ ended) => tried = 1..numServers
       /\ (~continueOnServerFailure /\ srvFailed # {}) =>
             /\ startup = "failed"
             /\ \E f \in srvFailed : srvFailed = {f} /\ tried = 1..f
       /\ (ended /\ managers = {}) => startup = "failed"
C20_Witness ==
    /\ continueOnServerFailure
    /\ startup = "ok"
    /\ \E f \in srvFailed : \E m \in managers : m > f

\* ----------------------------------------------------------- AuthManager
\* the retries of one authenticateAccount call
maxRetries == 1

\* authenticateAccount(), lines 80-84
authMethods == <<"Java", "Android", "Switch">>

AWorld ==
    [amCall |-> amCall, amState |-> amState, amMethod |-> amMethod,
     amAttempt |-> amAttempt, amSuccessful |-> amSuccessful, amEmitted |-> <<>>]

ACommit(a) ==
    /\ amCall' = a.amCall
    /\ amState' = a.amState
    /\ amMethod' = a.amMethod
    /\ amAttempt' = a.amAttempt
    /\ amSuccessful' = a.amSuccessful
    /\ amEmitted' = a.amEmitted
    /\ UNCHANGED <<smvars, hmvars, fmvars, mhvars, stvars, xrvars, idvars, cvvars, xpvars>>

AEv(e, i) == [ev |-> e, i |-> i]
AEmit(a, e, i) == [a EXCEPT !.amEmitted = Append(@, AEv(e, i))]

\* tryAuthenticationMethod(), lines 122-151: the Authflow of method m is
\* created and its getXboxToken() called
tryAuthenticationMethod(a, i, m) ==
    AEmit([a EXCEPT !.amState[i] = "trying", !.amMethod[i] = m], "getXboxToken", i)

\* authenticateAccount(), lines 75-88: up to the await of the first method
authenticateAccount(a, i, attempt) ==
    tryAuthenticationMethod([a EXCEPT !.amAttempt[i] = attempt], i, 1)

\* initializeAccounts(), line 42: accounts.map calls authenticateAccount for
\* the accounts from index i on
RECURSIVE authenticateFrom(_, _)
authenticateFrom(a, i) ==
    IF i > Len(AccountList) THEN a
    ELSE authenticateFrom(authenticateAccount(a, i, 1), i + 1)

\* initializeAccounts(), lines 59-65: 'authenticationFailed' for every
\* failed account from index i on
RECURSIVE emitFailed(_, _)
emitFailed(a, i) ==
    IF i > Len(AccountList) THEN a
    ELSE emitFailed(IF a.amState[i] = "failed" THEN AEmit(a, "authenticationFailed", i) ELSE a,
                    i + 1)

\* initializeAccounts(), lines 45-57: the fulfilled results, in account order
RECURSIVE successfulFrom(_, _)
successfulFrom(a, i) ==
    IF i > Len(AccountList) THEN <<>>
    ELSE (IF a.amState[i] = "ok" THEN <<i>> ELSE <<>>) \o successfulFrom(a, i + 1)

\* initializeAccounts(), lines 43-72: after Promise.allSettled, once every
\* authenticateAccount has settled
initializeAccountsSettle(a) ==
    IF a.amCall # "pending" \/ \E i \in AccountIds : a.amState[i] \notin {"ok", "failed"}
    THEN a
    ELSE LET a1 == emitFailed(a, 1)
             successful == successfulFrom(a, 1)
         IN IF successful = <<>> THEN [a1 EXCEPT !.amCall = "throw"]
            ELSE [a1 EXCEPT !.amCall = "ok", !.amSuccessful = successful]

\* authenticateAccount(), lines 109-119: the catch block
authenticateAccountCatch(a, i) ==
    IF a.amAttempt[i] <= maxRetries
    THEN [a EXCEPT !.amState[i] = "delay"]
    ELSE AEmit([a EXCEPT !.amState[i] = "failed"], "authFailed", i)

\* initializeAccounts() is called
InitializeAccounts ==
    /\ amCall = "idle"
    /\ ACommit(initializeAccountsSettle(authenticateFrom([AWorld EXCEPT !.amCall = "pending"], 1)))

\* the getXboxToken() of account i settles (a rejection includes the 15
\* minute timeout of line 124): authenticateAccount(), lines 88-107
MethodSettled(i, ok) ==
    /\ amState[i] = "trying"
    /\ ACommit(initializeAccountsSettle(
          IF ok THEN AEmit([AWorld EXCEPT !.amState[i] = "ok"], "accountAuthenticated", i)
          ELSE IF amMethod[i] < Len(authMethods)
               THEN tryAuthenticationMethod(AWorld, i, amMethod[i] + 1)
               ELSE authenticateAccountCatch(AWorld, i)))

\* the retry delay of account i elapses: authenticateAccount(), line 113
RetryDelayElapsed(i) ==
    /\ amState[i] = "delay"
    /\ ACommit(authenticateAccount(AWorld, i, amAttempt[i] + 1))

NextAM ==
    \/ InitializeAccounts
    \/ \E i \in AccountIds, ok \in BOOLEAN : MethodSettled(i, ok)
    \/ \E i \in AccountIds : RetryDelayElapsed(i)

SpecAM == Init /\ [][NextAM]_vars

\* C21: the accounts of one server are authenticated one after the other in
\* configuration order: the authentication of an account has not started
\* while that of an earlier account has not finished, so at most one account
\* is being authenticated at any time.
C21_SequentialAuthentication ==
    /\ \A i, j \in AccountIds :
          (i < j /\ amState[j] # "idle") => amState[i] \in {"ok", "failed"}
    /\ Cardinality({i \in AccountIds : amState[i] \in {"trying", "delay"}}) <= 1

\* ------------------------------------------------------ XboxAuthRecovery
\* bounds: the token attempts of one strategy, the XSTS attempts of one
\* custom recovery, the strategy timeout and the time observed, in ticks
xrMaxRetries == 2
xstsMaxRetries == 2
timeout == 2
MaxTime == 3

\* XboxAuthRecovery constructor, lines 16-17, and the retryDelay it gives its
\* XSTSTokenHandler, line 24, in ms
baseDelay == 2000
maxDelay == 30000
xstsRetryDelay == 2000

\* authenticateWithRecovery(), lines 43-48
strategies == <<"live auth.xboxlive.com", "msal pocket.realms", "live multiplayer",
                "live skipXSTSValidation">>

\* what getXboxToken() can resolve with: the lengths of userXUID, userHash
\* and XSTSToken (0 = missing) and whether NotAfter is absent, past or future
TokenShapes ==
    LET T(xuid, hash, xsts, notAfter) ==
            [xuid |-> xuid, hash |-> hash, xsts |-> xsts, notAfter |-> notAfter]
    IN {T(16, 16, 100, "future"), T(16, 16, 100, "past"), T(16, 16, 100, "none"),
        T(0, 16, 100, "future"), T(9, 16, 100, "future"), T(16, 9, 100, "future"),
        T(16, 16, 99, "future")}

\* what the XSTS endpoint can answer: a complete body (the length of Token,
\* whether DisplayClaims.xui has an entry, the lengths of its xid and uhs,
\* NotAfter), a body cut after its DisplayClaims, an unparsable body, an
\* error body with code 2148916233 or 2148916238, or another failure
XstsBodies ==
    LET B(token, xui, xid, uhs, notAfter) ==
            [kind |-> "complete", token |-> token, xui |-> xui, xid |-> xid, uhs |-> uhs,
             notAfter |-> notAfter]
    IN {B(100, TRUE, 16, 16, "future"), B(100, TRUE, 16, 16, "past"),
        B(100, TRUE, 0, 16, "future"), B(100, TRUE, 16, 0, "future"),
        B(100, TRUE, 0, 0, "future"), B(100, FALSE, 0, 0, "future"),
        B(99, TRUE, 16, 16, "future"), B(0, TRUE, 16, 16, "future")}
       \cup [kind : {"truncated"}, token : {99, 100}]
       \cup [kind : {"garbage", "xerr", "other"}]

\* the state of one authenticateAccount(email) call for the first account.
\* xrChains holds the runs of getXboxTokenWithAdvancedRetry: the last one is
\* awaited while the call is pending, earlier unfinished ones lost the race
\* against their strategy's timer and go on.
XWorld ==
    [xrCall |-> xrCall, xrRound |-> xrRound, xrStrategy |-> xrStrategy,
     xrChains |-> xrChains, xrStart |-> xrStart, xrClock |-> xrClock,
     xrIdentity |-> xrIdentity, tokenDir |-> tokenDir, xrEmitted |-> <<>>]

XCommit(x) ==
    /\ xrCall' = x.xrCall
    /\ xrRound' = x.xrRound
    /\ xrStrategy' = x.xrStrategy
    /\ xrChains' = x.xrChains
    /\ xrStart' = x.xrStart
    /\ xrClock' = x.xrClock
    /\ xrIdentity' = x.xrIdentity
    /\ tokenDir' = x.tokenDir
    /\ xrEmitted' = x.xrEmitted
    /\ UNCHANGED <<smvars, hmvars, fmvars, mhvars, stvars, amvars, idvars, cvvars, xpvars>>

XEmit(x, e, c) == [x EXCEPT !.xrEmitted = Append(@, [ev |-> e, c |-> c])]

\* clearAuthenticationCache(), lines 751-796: the entry named by the email
\* (the patterns with a literal '*' name no file), then every file of the
\* directory whose name ends with -cache.json
clearAuthenticationCache(x) ==
    [x EXCEPT !.tokenDir = {f \in @ : /\ ~(f.kind = "entry" /\ f.owner = AccountList[1])
                                       /\ f.kind # "xbl-cache.json"}]

\* tryAuthenticationStrategy(), lines 88-116: arm the timer and start a run
\* of getXboxTokenWithAdvancedRetry() with its first getXboxToken()
tryAuthenticationStrategy(x, k) ==
    LET run == [phase |-> "token", attempt |-> 1, xsts |-> 0, json |-> FALSE]
        x1 == [x EXCEPT !.xrStrategy = k, !.xrStart = x.xrClock,
                        !.xrChains = Append(@, run)]
    IN XEmit(XEmit(x1, "strategy", k), "getXboxToken", Len(x1.xrChains))

\* AuthManager.authenticateAccount(), lines 436-450, into
\* authenticateWithRecovery(), lines 31-54: clear the cache, first strategy
authenticateWithRecovery(x, round) ==
    tryAuthenticationStrategy(
        clearAuthenticationCache([x EXCEPT !.xrCall = "pending", !.xrRound = round]), 1)

\* authenticateWithRecovery(), lines 66-72: the catch of the strategy loop
\* goes on to the next strategy; after the last one the error reaches the
\* catch of AuthManager.authenticateAccount(), lines 463-473
strategyFailed(x) ==
    IF x.xrStrategy < Len(strategies)
    THEN tryAuthenticationStrategy(x, x.xrStrategy + 1)
    ELSE IF x.xrRound <= maxRetries
    THEN [x EXCEPT !.xrCall = "amDelay"]
    ELSE XEmit([x EXCEPT !.xrCall = "failed"], "authFailed", 0)

\* the run c ends, with a token or throwing (r.ok).  If it is the awaited
\* one: tryAuthenticationStrategy(), lines 117-137 (the client is built from
\* the token), authenticateWithRecovery(), lines 62-69
chainSettle(x, c, r) ==
    LET x1 == [x EXCEPT !.xrChains[c] = [phase |-> "done", attempt |-> 0, xsts |-> 0,
                                         json |-> FALSE]]
        client == [xuid |-> r.tok.xuid, userHash |-> r.tok.hash, xstsToken |-> r.tok.xsts,
                   authHeader |-> <<"XBL3.0 x=", r.tok.hash, ";", r.tok.xsts>>,
                   expiresAt |-> IF r.tok.notAfter = "past" THEN "past" ELSE "future"]
    IN IF ~(x.xrCall = "pending" /\ c = Len(x.xrChains)) THEN x1
       ELSE IF r.ok
       THEN XEmit([x1 EXCEPT !.xrCall = "ok", !.xrIdentity = client], "accountAuthenticated", c)
       ELSE strategyFailed(x1)

\* a retry loop that does not count its attempts
retryAlways(x, c, kind, rnd) ==
    [x EXCEPT !.xrChains[c].phase = "delay",
              !.xrEmitted = Append(@, [ev |-> "delay", c |-> c, ms |-> baseDelay])]

\* getXboxTokenWithAdvancedRetry(), lines 183-227: retry after a delay while
\* attempts remain, otherwise leave the loop and throw.  The delay depends
\* on the kind of error; rnd is Math.random() * 1000, rounded down.
retryOrThrow(x, c, kind, rnd) ==
    LET attempt == x.xrChains[c].attempt
        exp == baseDelay * 2^(attempt - 1) + rnd
        delay == IF kind = "json" THEN (IF exp <= maxDelay THEN exp ELSE maxDelay)
                 ELSE IF kind = "network" THEN baseDelay * attempt + 2 * rnd
                 ELSE baseDelay + 2 * rnd
    IN IF attempt < xrMaxRetries
       THEN [x EXCEPT !.xrChains[c].phase = "delay",
                      !.xrEmitted = Append(@, [ev |-> "delay", c |-> c, ms |-> delay])]
       ELSE chainSettle(x, c, [ok |-> FALSE])

\* getXboxTokenWithAdvancedRetry(), lines 151-219: getXboxToken() settled.
\* A token is validated (lines 154-161); a JSON error starts
\* tryCustomXSTSRecovery(), lines 233-270, whose token extraction ends with
\* the built-in user token at the latest and which then asks for the XSTS
\* token; invalid_grant is thrown; any other error is retried.  When the
\* service answered with a token or a body, the library has written the
\* account's cache file.
onTokenResponse(x, c, out, rnd) ==
    LET written == IF out.kind \in {"token", "json"}
                   THEN {[owner |-> AccountList[1], kind |-> "xbl-cache.json"]} ELSE {}
        x1 == XEmit([x EXCEPT !.tokenDir = @ \cup written], out.kind, c)
    IN IF out.kind = "token"
       THEN IF out.tok.xuid >= 10 /\ out.tok.hash >= 10 /\ out.tok.xsts >= 100
            THEN chainSettle(x1, c, [ok |-> TRUE, tok |-> out.tok])
            ELSE retryOrThrow(x1, c, "other", rnd)
       ELSE IF out.kind = "json"
       THEN XEmit([x1 EXCEPT !.xrChains[c].phase = "xsts", !.xrChains[c].xsts = 1,
                             !.xrChains[c].json = TRUE], "xstsRequest", c)
       ELSE IF out.kind = "invalid_grant"
       THEN chainSettle(x1, c, [ok |-> FALSE])
       ELSE retryOrThrow(x1, c, "network", rnd)

\* parseXSTSResponse() and attemptAlternativeParsing(), lines 153-242.  A
\* complete body parses; without a Token it is thrown to the alternative
\* parsing, whose JSON.parse returns it as it is (line 231).  A body cut
\* behind xui does not parse; the regular expressions find its Token and,
\* for DisplayClaims, the text up to the first closing brace, which is not
\* JSON: the claims become { xui: [{ uhs: "temp_hash" }] } (9 characters)
\* and NotAfter one day ahead.  Anything else throws.
parseXSTSResponse(body) ==
    IF body.kind = "complete"
    THEN [ok |-> TRUE, token |-> body.token, xui |-> body.xui, xid |-> body.xid,
          uhs |-> body.uhs, notAfter |-> body.notAfter]
    ELSE IF body.kind = "truncated"
    THEN [ok |-> TRUE, token |-> body.token, xui |-> TRUE, xid |-> 0, uhs |-> 9,
          notAfter |-> "future"]
    ELSE [ok |-> FALSE, token |-> 0]

\* getXSTSTokenCustom(), lines 49-90, and tryCustomXSTSRecovery(), lines
\* 272-305, with extractUserInfo(), lines 279-297: the XSTS request
\* settled.  Every error of the recovery is caught and makes it return null.
onXstsResponse(x, c, body, rnd) ==
    LET d == parseXSTSResponse(body)
        xboxToken == [xuid |-> IF d.xid # 0 THEN d.xid ELSE d.uhs,
                      hash |-> IF d.uhs # 0 THEN d.uhs ELSE d.xid,
                      xsts |-> d.token, notAfter |-> d.notAfter]
        x1 == XEmit(x, IF d.ok THEN "xstsData" ELSE body.kind, c)
    IN IF d.ok /\ d.token # 0
       THEN IF d.token >= 100 /\ d.xui
            THEN chainSettle(x1, c, [ok |-> TRUE, tok |-> xboxToken])
            ELSE retryOrThrow(x1, c, "json", rnd)
       ELSE IF body.kind = "xerr"
       THEN retryOrThrow(x1, c, "json", rnd)
       ELSE IF x.xrChains[c].xsts < xstsMaxRetries
            THEN [x1 EXCEPT !.xrChains[c].phase = "xstsDelay",
                            !.xrEmitted = Append(@, [ev |-> "delay", c |-> c,
                                ms |-> IF body.kind = "garbage"
                                       THEN xstsRetryDelay * 2^(x.xrChains[c].xsts - 1)
                                       ELSE xstsRetryDelay * x.xrChains[c].xsts])]
            ELSE retryOrThrow(x1, c, "json", rnd)

\* before the call the token directory holds any files of both identities
InitXRCall ==
    /\ xrCall = "idle"
    /\ xrRound = 0
    /\ xrStrategy = 0
    /\ xrChains = <<>>
    /\ xrStart = 0
    /\ xrClock = 0
    /\ xrIdentity = NoIdentity
    /\ tokenDir \in SUBSET [owner : Range(AccountList), kind : {"entry", "xbl-cache.json"}]
    /\ xrEmitted = <<>>

\* AuthManager.authenticateAccount(email) is called
AuthenticateAccount ==
    /\ xrCall = "idle"
    /\ XCommit(authenticateWithRecovery(XWorld, 1))

\* the getXboxToken() of run c settles
TokenResponse(c) ==
    /\ c <= Len(xrChains)
    /\ xrChains[c].phase = "token"
    /\ \E out \in [kind : {"token"}, tok : TokenShapes]
                   \cup [kind : {"json", "invalid_grant", "network"}], rnd \in {0, 999} :
         XCommit(onTokenResponse(XWorld, c, out, rnd))

\* the XSTS request of run c settles
XstsResponse(c) ==
    /\ c <= Len(xrChains)
    /\ xrChains[c].phase = "xsts"
    /\ \E body \in XstsBodies, rnd \in {0, 999} : XCommit(onXstsResponse(XWorld, c, body, rnd))

\* a delay of run c elapses: that of getXSTSTokenCustom(), lines 60-86, then
\* the next XSTS request; or the backoff of getXboxTokenWithAdvancedRetry(),
\* lines 186-215 (after a JSON error the cache is cleared, line 193), then
\* the next getXboxToken()
DelayElapsed(c) ==
    /\ c <= Len(xrChains)
    /\ xrChains[c].phase \in {"xstsDelay", "delay"}
    /\ IF xrChains[c].phase = "xstsDelay"
       THEN XCommit(XEmit([XWorld EXCEPT !.xrChains[c].phase = "xsts",
                                         !.xrChains[c].xsts = @ + 1], "xstsRequest", c))
       ELSE LET x == IF xrChains[c].json THEN clearAuthenticationCache(XWorld) ELSE XWorld
            IN XCommit(XEmit([x EXCEPT !.xrChains[c] = [phase |-> "token", attempt |-> @.attempt + 1,
                                                        xsts |-> 0, json |-> FALSE]],
                             "getXboxToken", c))

\* the timer of tryAuthenticationStrategy() fires: lines 89-91; the run it
\* raced goes on
StrategyTimeout ==
    /\ xrCall = "pending"
    /\ xrClock - xrStart >= timeout
    /\ XCommit(strategyFailed(XEmit(XWorld, "timeout", Len(xrChains))))

\* the retry delay of AuthManager.authenticateAccount() elapses: 466-467
AccountRetryDelayElapsed ==
    /\ xrCall = "amDelay"
    /\ XCommit(authenticateWithRecovery(XWorld, xrRound + 1))

\* time passes while the call is in progress and no timer is due
XTick ==
    /\ xrCall \in {"pending", "amDelay"}
    /\ xrClock < MaxTime
    /\ ~(xrCall = "pending" /\ xrClock - xrStart >= timeout)
    /\ XCommit([XWorld EXCEPT !.xrClock = @ + 1])

NextXR ==
    \/ AuthenticateAccount
    \/ \E c \in 1..(Len(strategies) * (maxRetries + 1)) : TokenResponse(c)
    \/ \E c \in 1..(Len(strategies) * (maxRetries + 1)) : XstsResponse(c)
    \/ \E c \in 1..(Len(strategies) * (maxRetries + 1)) : DelayElapsed(c)
    \/ StrategyTimeout
    \/ AccountRetryDelayElapsed
    \/ XTick

InitRecovery == InitSM /\ InitHM /\ InitFM /\ InitMH /\ InitST /\ InitAM /\ InitXRCall /\ InitID /\ InitCV /\ InitXP

SpecXR == InitRecovery /\ [][NextXR]_vars

\* C22: when the awaited getXboxToken() answers invalid_grant or
\* unauthorized_client, the authentication of the account fails at once: the
\* call is failed after that step and the step starts no further strategy
\* and issues no further token request.
C22_Step ==
    (/\ xrCall = "pending"
     /\ [ev |-> "invalid_grant", c |-> Len(xrChains)] \in Range(xrEmitted'))
    => /\ xrCall' = "failed"
       /\ \A i \in DOMAIN xrEmitted' : xrEmitted'[i].ev \notin {"strategy", "getXboxToken"}

C22_InvalidGrantIsPermanent == [][C22_Step]_vars

\* C23: when the XSTS request of the awaited run is answered with Xbox error
\* 2148916233 or 2148916238, the authentication fails at once: the call is
\* failed after that step, and the step sleeps no delay and issues no
\* further XSTS or token request.
C23_Step ==
    (/\ xrCall = "pending"
     /\ [ev |-> "xerr", c |-> Len(xrChains)] \in Range(xrEmitted'))
    => /\ xrCall' = "failed"
       /\ \A i \in DOMAIN xrEmitted' :
             xrEmitted'[i].ev \notin {"delay", "xstsRequest", "getXboxToken", "strategy"}

C23_XboxErrorIsPermanent == [][C23_Step]_vars

\* C24: every identity returned by an authentication has a user id and a
\* user hash of at least 10 characters, an XSTS token of at least 100
\* characters, the authorization header 'XBL3.0 x=' + userHash + ';' +
\* XSTSToken, and an expiry later than the time of return.
C24_IdentityWellFormed ==
    xrCall = "ok" =>
        /\ xrIdentity.xuid >= 10
        /\ xrIdentity.userHash >= 10
        /\ xrIdentity.xstsToken >= 100
        /\ xrIdentity.authHeader = <<"XBL3.0 x=", xrIdentity.userHash, ";", xrIdentity.xstsToken>>
        /\ xrIdentity.expiresAt = "future"

\* C25: one authenticate call has a single overall deadline: it is never in
\* progress later than the deadline after its start, and the step in which
\* a timer fires fails the call and starts no further strategy or retry.
C25_Step ==
    /\ xrCall' \in {"pending", "amDelay"} => xrClock' <= timeout
    /\ (\E i \in DOMAIN xrEmitted' : xrEmitted'[i].ev = "timeout")
          => /\ xrCall' = "failed"
             /\ \A i \in DOMAIN xrEmitted' :
                   xrEmitted'[i].ev \notin {"strategy", "getXboxToken"}

C25_SingleDeadline == [][C25_Step]_vars

\* C26: invalidating the token cache of one identity removes entries of that
\* identity only: every file of another identity that is in the shared
\* directory before a step is still there after it.
C26_Step ==
    \A f \in tokenDir : f.owner # AccountList[1] => f \in tokenDir'

C26_OthersCacheUntouched == [][C26_Step]_vars

\* C27: no two createSession calls of a server use the same session name:
\* the name of every session PUT is later than every name chosen before.
C27_Step ==
    \A i \in DOMAIN emitted' : emitted'[i].ev = "PUT" => emitted'[i].a > clock

C27_SessionNamesDistinct == [][C27_Step]_vars

\* ------------------------------------------- identities of a server's session
\* bound: the token refreshes of one account
MaxRefreshes == 2

\* FriendConnectManager.initialize(), lines 62-106: initializeAccounts()
\* returns the clients of the accounts that authenticated, in configuration
\* order (auth-manager.js, lines 42-72); the SessionManager is constructed
\* with the first one as host and with the list; then createSession() sends
\* the session PUT as the host and joins the others
SupervisorInitialize ==
    /\ hostAccount = NoAccount
    /\ \E S \in SUBSET AccountIds \ {{}} :
         LET successful == CHOOSE q \in [1..Cardinality(S) -> S] :
                               \A a, b \in 1..Cardinality(S) : a < b => q[a] < q[b]
             clients == [k \in 1..Cardinality(S) |-> [account |-> successful[k], gen |-> 1]]
         IN /\ idAuth' = [i \in AccountIds |-> IF i \in S THEN 1 ELSE 0]
            /\ hostAccount' = clients[1]
            /\ allAccounts' = clients
            /\ idUsed' = clients
            /\ idEmitted' = <<[ev |-> "PUT", id |-> clients[1]]>>
    /\ UNCHANGED <<idBusy, smvars, hmvars, fmvars, mhvars, stvars, amvars, xrvars, cvvars, xpvars>>

\* AuthManager.refreshAccountToken(email), lines 199-208, is called
RefreshAccountToken(i) ==
    /\ idAuth[i] \in 1..MaxRefreshes
    /\ i \notin idBusy
    /\ idBusy' = idBusy \cup {i}
    /\ idEmitted' = <<>>
    /\ UNCHANGED <<idAuth, hostAccount, allAccounts, idUsed>>
    /\ UNCHANGED <<smvars, hmvars, fmvars, mhvars, stvars, amvars, xrvars, cvvars, xpvars>>

\* its authenticateAccount() settles: a new client replaces the entry of
\* authenticatedAccounts (line 91) and 'tokenRefreshed' is emitted (line
\* 212), or the refresh fails (lines 216-219)
RefreshSettled(i, ok) ==
    /\ i \in idBusy
    /\ idBusy' = idBusy \ {i}
    /\ idAuth' = IF ok THEN [idAuth EXCEPT ![i] = @ + 1] ELSE idAuth
    /\ idEmitted' = IF ok THEN <<[ev |-> "tokenRefreshed", id |-> [account |-> i, gen |-> idAuth[i] + 1]]>>
                    ELSE <<>>
    /\ UNCHANGED <<hostAccount, allAccounts, idUsed>>
    /\ UNCHANGED <<smvars, hmvars, fmvars, mhvars, stvars, amvars, xrvars, cvvars, xpvars>>

\* SessionManager.createSession(): the PUT is sent with
\* this.hostAccount.authHeader (session-manager.js, lines 133-141) and the
\* members joined are this.allAccounts (lines 160-199)
SessionCreate ==
    /\ hostAccount # NoAccount
    /\ idUsed' = allAccounts
    /\ idEmitted' = <<[ev |-> "PUT", id |-> hostAccount]>>
    /\ UNCHANGED <<idAuth, idBusy, hostAccount, allAccounts>>
    /\ UNCHANGED <<smvars, hmvars, fmvars, mhvars, stvars, amvars, xrvars, cvvars, xpvars>>

\* SessionManager.stop(), lines 352-380
SessionStop ==
    /\ idUsed # <<>>
    /\ idUsed' = <<>>
    /\ idEmitted' = <<[ev |-> "stop", id |-> hostAccount]>>
    /\ UNCHANGED <<idAuth, idBusy, hostAccount, allAccounts>>
    /\ UNCHANGED <<smvars, hmvars, fmvars, mhvars, stvars, amvars, xrvars, cvvars, xpvars>>

NextID ==
    \/ SupervisorInitialize
    \/ \E i \in AccountIds : RefreshAccountToken(i)
    \/ \E i \in AccountIds, ok \in BOOLEAN : RefreshSettled(i, ok)
    \/ SessionCreate
    \/ SessionStop

SpecID == Init /\ [][NextID]_vars

\* C28: a running session keeps the identities it was created with, a
\* createSession uses the current identity of every account (the refreshed
\* one after a re-authentication), and the host is the first authenticated
\* account in configuration order.
C28_Step ==
    /\ idUsed' # idUsed => \E i \in DOMAIN idEmitted' : idEmitted'[i].ev \in {"PUT", "stop"}
    /\ (\E i \in DOMAIN idEmitted' : idEmitted'[i].ev = "PUT") =>
          /\ \A i \in DOMAIN idEmitted' :
                idEmitted'[i].ev = "PUT" => idEmitted'[i].id.gen = idAuth'[idEmitted'[i].id.account]
          /\ \A k \in DOMAIN idUsed' : idUsed'[k].gen = idAuth'[idUsed'[k].account]
          /\ \A i \in AccountIds : idAuth'[i] > 0 => idUsed'[1].account <= i

C28_SessionIdentities == [][C28_Step]_vars

\* ----------------------------------------------------------- ConfigValidator
\* An object is a function from the keys it has to their values; a value is
\* "given" (a valid value of the configuration file), "default" (the value
\* of defaultConfig), "empty" (the default accounts, []) or "undefined".
ServerFields ==
    {"server", "port", "hostName", "worldName", "version", "protocol", "maxPlayers", "accounts"}

\* processServerConfiguration(), lines 120-146: a configuration without a
\* servers list gets one entry that copies the top-level fields, read or not
processServerConfiguration(config) ==
    IF config.hasServers THEN config
    ELSE [config EXCEPT
            !.hasServers = TRUE,
            !.servers = <<[k \in {"id"} \cup ServerFields |->
                             IF k = "id" THEN "main-server"
                             ELSE IF k \in DOMAIN config.top THEN config.top[k]
                             ELSE "undefined"]>>]

\* applyDefaults(), lines 148-186: the global defaults for the keys the
\* configuration lacks, then for each server { ...serverDefaults, ...server }
applyDefaults(config) ==
    LET truthy(o, k) == k \in DOMAIN o /\ o[k] # "undefined"
        default(k) == IF k = "accounts" THEN "empty" ELSE "default"
        withDefaults(server, index) ==
            LET serverDefaults ==
                    [k \in {"id"} \cup ServerFields |->
                        IF truthy(server, k) THEN server[k]
                        ELSE IF k = "id" THEN <<"server-", index>>
                        ELSE default(k)]
            IN [k \in DOMAIN serverDefaults \cup DOMAIN server |->
                   IF k \in DOMAIN server THEN server[k] ELSE serverDefaults[k]]
    IN [config EXCEPT
          !.top = [k \in ServerFields |-> IF k \in DOMAIN @ THEN @[k] ELSE default(k)],
          !.servers = [i \in DOMAIN @ |-> withDefaults(@[i], i)]]

\* validateStructure(), validateServers() and validateAccounts(), lines
\* 188-272: the first error thrown, or "none"
validateServers(config) ==
    LET missing(i) == {k \in ServerFields \ {"accounts"} :
                          k \notin DOMAIN config.servers[i] \/ config.servers[i][k] = "undefined"}
        noAccounts(i) == \/ "accounts" \notin DOMAIN config.servers[i]
                         \/ config.servers[i]["accounts"] \in {"undefined", "empty"}
    IN IF ~config.hasServers \/ config.servers = <<>> THEN "At least one server configuration is required"
       ELSE IF \E i \in DOMAIN config.servers : missing(i) # {} THEN "server field is required"
       ELSE IF \E i \in DOMAIN config.servers : noAccounts(i) THEN "accounts must be an array"
       ELSE "none"

\* validate(), lines 83-118
validate(config) ==
    LET configWithDefaults == applyDefaults(processServerConfiguration(config))
        error == validateServers(configWithDefaults)
    IN [ok |-> error = "none", error |-> error, servers |-> configWithDefaults.servers]

\* the configurations passed: the old format with any of the server fields
\* at top level, or a servers list with one entry having any of the fields
InitCVCall ==
    /\ cvInput \in [legacy : BOOLEAN, fields : SUBSET ServerFields]
    /\ cvResult = NoConfig

Validate ==
    /\ cvResult = NoConfig
    /\ LET given == [k \in cvInput.fields |-> "given"]
           config == IF cvInput.legacy
                     THEN [hasServers |-> FALSE, servers |-> <<>>, top |-> given]
                     ELSE [hasServers |-> TRUE, servers |-> <<given>>, top |-> <<>>]
       IN cvResult' = validate(config)
    /\ UNCHANGED <<cvInput, smvars, hmvars, fmvars, mhvars, stvars, amvars, xrvars, idvars, xpvars>>

InitValidate ==
    InitSM /\ InitHM /\ InitFM /\ InitMH /\ InitST /\ InitAM /\ InitXR /\ InitID /\ InitCVCall /\ InitXP

SpecCV == InitValidate /\ [][Validate]_vars

\* C29: validate() accepts an old single-server configuration that gives
\* server, port and accounts at top level: the result has exactly one
\* server, its id is 'main-server', the fields given keep their value, every
\* omitted field has its default, and validation succeeds.
C29_LegacyConfigAccepted ==
    (/\ cvResult # NoConfig
     /\ cvInput.legacy
     /\ {"server", "port", "accounts"} \subseteq cvInput.fields)
    => /\ cvResult.ok
       /\ Len(cvResult.servers) = 1
       /\ cvResult.servers[1]["id"] = "main-server"
       /\ \A k \in ServerFields :
             cvResult.servers[1][k] = IF k \in cvInput.fields THEN "given" ELSE "default"

\* C30: an edge (A, B) is recorded as established only if A follows B: the
\* follow PUT of A is skipped only when A already follows B, never merely
\* because B follows A.
C30_RecordedOnlyIfFollowed == fmFriendships \subseteq follows

\* C31: within one strategy getXboxToken() is attempted at most maxRetries
\* (at most five) times and the call starts a bounded number of runs; the
\* backoff slept before retry k after a malformed-JSON failure is at least
\* min(2 s * 2^(k-1), 30 s) and at most 30 s; and the step that retries
\* after such a failure leaves no cache entry of the identity on disk.
C31_Step ==
    /\ xrMaxRetries <= 5
    /\ Len(xrChains') <= Len(strategies) * (maxRetries + 1)
    /\ \A c \in DOMAIN xrChains' : xrChains'[c].attempt <= xrMaxRetries
    /\ \A i \in DOMAIN xrEmitted' :
          LET e == xrEmitted'[i]
              k == xrChains'[e.c].attempt
              floor == IF 2000 * 2^(k - 1) <= 30000 THEN 2000 * 2^(k - 1) ELSE 30000
          IN (e.ev = "delay" /\ xrChains'[e.c].phase = "delay" /\ xrChains'[e.c].json)
                => (floor <= e.ms /\ e.ms <= 30000)
    /\ \A c \in DOMAIN xrChains :
          (xrChains[c].phase = "delay" /\ xrChains[c].json /\ xrChains'[c].phase = "token")
             => /\ xrChains'[c].attempt = xrChains[c].attempt + 1
                /\ \A f \in tokenDir' : f.owner # AccountList[1]

InitXPCall ==
    /\ xpBody \in [kind : {"complete"}, token : {0, 99, 100}, xui : BOOLEAN, xid : {0, 16},
                    uhs : {0, 1, 16}, notAfter : {"none", "past", "future"}]
                   \cup [kind : {"truncated"}, token : {99, 100}, uhs : {1, 16}]
                   \cup [kind : {"garbage"}]
    /\ xpResult = NoConfig

ParseXSTSResponse ==
    /\ xpResult = NoConfig
    /\ xpResult' = parseXSTSResponse(xpBody)
    /\ UNCHANGED <<xpBody, smvars, hmvars, fmvars, mhvars, stvars, amvars, xrvars, idvars, cvvars>>

InitParse ==
    InitSM /\ InitHM /\ InitFM /\ InitMH /\ InitST /\ InitAM /\ InitXR /\ InitID /\ InitCV /\ InitXPCall

SpecXP == InitParse /\ [][ParseXSTSResponse]_vars

\* C32: for a response cut after a complete Token and a DisplayClaims with
\* xui[0].uhs, parseXSTSResponse returns the given Token and the user hash
\* of xui[0].uhs; and whatever it returns has a Token (and DisplayClaims).
C32_TruncatedParsed ==
    xpResult # NoConfig =>
        /\ xpBody.kind = "truncated" =>
              (xpResult.ok /\ xpResult.token = xpBody.token /\ xpResult.uhs = xpBody.uhs)
        /\ xpResult.ok => xpResult.token # 0

\* C33: when initialize() returns without throwing (and the server is
\* registered as active), its SessionManager is running with a session.
\* Stated for the runs without a stop or a recovery, so that initialize can
\* only miss its session by a failing session creation.
C33_Step ==
    (EmittedBy(emitted', "initialized") /\ nStops' = 0 /\ nRecovers' = 0)
        => (isRunning' /\ sessionInstance' # 0)

C33_InitializedMeansRunning == [][C33_Step]_vars

\* C34: 'sessionRecovered' is emitted only when the createSession of the
\* reconnect run created a session: the manager is then running with a
\* session name, and no reconnect run of that turn ended with 'Max reconnect
\* attempts exceeded'.  Stated for the runs in which stop() was not called.
C34_Step ==
    (EmittedBy(emitted', "sessionRecovered") /\ nStops' = 0)
        => /\ isRunning' /\ sessionInstance' # 0
           /\ ~EmittedBy(emitted', "error:max")

C34_RecoveredMeansSession == [][C34_Step]_vars

\* C35: in every reachable state of a SessionManager, isRunning implies a
\* non-null sessionInstance, and a heartbeat interval is armed only while
\* isRunning is true.
C35_RunningHasSession ==
    /\ isRunning => sessionInstance # 0
    /\ heartbeatInterval => isRunning

\* C36: once FriendConnectManager.stop() has completed, no recovery is
\* started and no session-creation PUT is issued for that server (initialize
\* and recover cannot be called from outside on the stopped, unregistered
\* manager): an 'error' raised afterwards by a heartbeat that was in flight
\* or by a pending reconnect run recreates nothing.
C36_Step ==
    (nStops > 0 /\ stacks["mstop"] = <<>> /\ ~registered /\ stacks["rec"] = <<>>)
        => (nRecovers' = nRecovers /\ ~EmittedBy(emitted', "PUT"))

C36_StoppedStaysStopped == [][C36_Step]_vars

\* C37: while the HealthMonitor is stopped (stop() returned and
\* startMonitoring was not called again), no healthCheck, serverDown,
\* criticalFailure or systemDegraded event is emitted and the checker,
\* history and failure registries stay empty, also when a tick was suspended
\* on a probe at the time of the stop.
C37_Step ==
    (~hmIsRunning /\ ~hmIsRunning')
        => /\ \A i \in 1..Len(hmEmitted') :
                 hmEmitted'[i].ev \notin {"healthCheck", "serverDown",
                                         "criticalFailure", "systemDegraded"}
           /\ serverHealthCheckers' = <<>>
           /\ healthHistory' = EmptyMap
           /\ failures' = EmptyMap

C37_StoppedMonitorIsSilent == [][C37_Step]_vars

\* C38: the coordinator's stats.activeServers is never negative and, whenever
\* no initialize, recover or stop is in progress, equals the number of
\* managers in the registry.
C38_ActiveServersMatchRegistry ==
    /\ activeServers >= 0
    /\ (stacks["init"] = <<>> /\ stacks["rec"] = <<>> /\ stacks["mstop"] = <<>>)
          => activeServers = (IF registered THEN 1 ELSE 0)

\* C39: with session.autoReconnect configured as false, a failed
\* createSession makes no reconnect attempt: no 'reconnectAttempt' is
\* emitted, the failure is emitted as 'error' and createSession rejects (the
\* caller, initialize or recover, reports its failure in the same turn).
C39_Step ==
    (~cfgAutoReconnect /\ EmittedBy(emitted', "createFailed"))
        => /\ ~EmittedBy(emitted', "reconnectAttempt")
           /\ EmittedBy(emitted', "error:create")
           /\ EmittedBy(emitted', "managerError") \/ EmittedBy(emitted', "recoveryFailed")

C39_NoReconnectWhenDisabled == [][C39_Step]_vars

\* C40: for a manager that is initialized and active, the session manager
\* is reported unhealthy exactly when the session is not running or more
\* than 2 * heartbeatInterval has elapsed since its last successful heartbeat
\* (since its creation, when no heartbeat succeeded yet); in particular a
\* session is healthy between its creation and its first heartbeat tick.
C40_HealthyUntilHeartbeatOverdue ==
    LET in == mhInput
        elapsed == IF in.hasHeartbeat THEN in.sinceHeartbeat ELSE in.sinceCreation
        expected == in.isRunning /\ in.hasSession /\ elapsed <= heartbeatIntervalMs * 2
    IN (mhResult # NoResult /\ in.initialized /\ in.sinceActivity <= maxInactivityTime)
          => (expected <=> (mhResult.reason = <<>> \/ Head(mhResult.reason) # "Session unhealthy"))
====
